---- MODULE Spec2Model ----
(***************************************************************************)
(* Verification model of the quantified-self dashboard                     *)
(* (src/components/dashboard/lib.ts and the Dashboard components).         *)
(*                                                                         *)
(* Units.  The model's clock ticks in minutes.  Every "hour value" of the  *)
(* program (a real number such as 25.5) is held as a whole number of ticks *)
(* (1530); where the program does arithmetic on it that it then tests for  *)
(* equality (calculateCorrelation) it is turned into the rounded number    *)
(* hour + minutes/60.  Instants (JavaScript Date values) are ticks of UTC  *)
(* counted from 00:00 UTC of model day 0; calendar dates ('yyyy-MM-dd'     *)
(* keys) are day numbers on the same calendar.  Scores are small integers; *)
(* averages, p-values and effect sizes are exact rationals kept as         *)
(* numerator/denominator pairs.                                            *)
(***************************************************************************)
EXTENDS Integers, Sequences, FiniteSets, TLC

VARIABLES
  sysTz,      \* the time zone of the JavaScript runtime (the browser)
  events,     \* rows of daily_log handed to processEventData
  journals,   \* rows of journals as the fetch returned them
  processed,  \* processEventData(events), once pc has left "input"
  merged,     \* fetchData's mergedData, once pc = "merged"
  data,       \* ProcessedData[] handed to the analyzers
  result,     \* the AnalyticsResult of the analyzer call, once pc = "analysed"
  pc,         \* how far the computation has come
  config,           \* Dashboard2: the DashboardConfig state
  selectedMetrics,  \* Dashboard2: the metric ids selected in the selector
  now,              \* Dashboard2: the value of Date.now()
  timeRange,        \* Dashboard: the selected range in days
  loading,          \* Dashboard: the loading flag
  error,            \* Dashboard: the error message or null
  timelineData,     \* Dashboard: the timeline data on display
  fetches           \* Dashboard: the fetchData runs in flight

\* the state of the two dashboard components
dashboardVars ==
  <<config, selectedMetrics, now, timeRange, loading, error, timelineData,
    fetches>>

vars ==
  <<sysTz, events, journals, processed, merged, data, result, pc, config,
    selectedMetrics, now, timeRange, loading, error, timelineData, fetches>>

\* no dashboard component is mounted
NoDashboard ==
  /\ config = << >>
  /\ selectedMetrics = << >>
  /\ now = 0
  /\ timeRange = ""
  /\ loading = FALSE
  /\ error = << >>
  /\ timelineData = << >>
  /\ fetches = << >>

\* A field of a record is null/absent (Null) or a number v (Num(v)):
\* typeof x === 'number' is x # Null, and Number(x) is Value(x).
Null == << >>
Num(v) == <<v>>
Value(x) == x[1]

(***************************************************************************)
(* Constants of lib.ts                                                     *)
(***************************************************************************)
TIMEZONE == "Australia/Melbourne"
DAY_PIVOT_HOUR == 18
HOURS_IN_DAY == 24
MINUTES_PER_HOUR == 60

\* the length of one tick in minutes, and the ticks of h hours and of a day
TickMinutes == 1
TicksPerHour == MINUTES_PER_HOUR \div TickMinutes
Hours(h) == h * TicksPerHour
TicksPerDay == Hours(HOURS_IN_DAY)

(***************************************************************************)
(* Time zones.  Australia/Melbourne is UTC+10 (AEST) and UTC+11 while      *)
(* daylight saving is in force (AEDT).  The model calendar holds one       *)
(* start of daylight saving: 02:00 AEST of model day 2 (as 2024-10-06 is   *)
(* when day 0 is 2024-10-04).                                              *)
(***************************************************************************)
AEST == Hours(10)
AEDT == Hours(11)
DstStartUtc == (2 * TicksPerDay) + Hours(2) - AEST

TzOffset(tz, t) ==
  IF tz = "UTC" THEN 0
  ELSE IF t < DstStartUtc THEN AEST ELSE AEDT

\* wall clock (ticks since 00:00 of day 0 in zone tz) of instant t
WallClock(tz, t) == t + TzOffset(tz, t)

\* the instant whose wall clock in zone tz is w (new Date(y, m, d, h, min))
FromWallClock(tz, w) ==
  IF tz = "UTC" THEN w
  ELSE IF w - AEST < DstStartUtc THEN w - AEST
  ELSE IF w - AEDT >= DstStartUtc THEN w - AEDT
  ELSE w - AEST  \* a skipped wall clock is read with the offset before the change

\* date-fns-tz toZonedTime: a Date whose fields in the runtime's own zone
\* read as the wall clock of instant t in zone tz
toZonedTime(t, tz) == FromWallClock(sysTz, WallClock(tz, t))

\* Date.prototype.getHours / getMinutes: fields in the runtime's zone
\* (getMinutes in ticks, so that getMinutes() / 60 is getMinutes(d) ticks)
getHours(d) == (WallClock(sysTz, d) % TicksPerDay) \div TicksPerHour
getMinutes(d) == WallClock(sysTz, d) % TicksPerHour

\* date-fns-tz formatInTimeZone(d, tz, 'yyyy-MM-dd'): the calendar date of
\* instant d in zone tz
formatInTimeZone(d, tz) == WallClock(tz, d) \div TicksPerDay

(***************************************************************************)
(* Event aggregation                                                       *)
(***************************************************************************)
EventTypes == {"asleep", "work_end"}
ScoreTypes == {"mood_score", "energy_score"}

\* a ProcessedData record with only its date key set
EmptyDay(date) ==
  [date |-> date, asleep |-> Null, work_end |-> Null,
   mood_score |-> Null, energy_score |-> Null]

\* index of the record keyed date in acc, 0 when acc[date] is undefined
RECURSIVE IndexOfDate(_, _, _)
IndexOfDate(acc, date, i) ==
  IF i > Len(acc) THEN 0
  ELSE IF acc[i].date = date THEN i
  ELSE IndexOfDate(acc, date, i + 1)

\* SetField that keeps a value already set (first event wins)
SetFieldKeepFirst(acc, date, key, value) ==
  LET i == IndexOfDate(acc, date, 1)
      base == IF i = 0 THEN Append(acc, EmptyDay(date)) ELSE acc
      j == IF i = 0 THEN Len(acc) + 1 ELSE i
  IN IF base[j][key] # Null THEN base
     ELSE [base EXCEPT ![j] = [@ EXCEPT ![key] = Num(value)]]

\* acc[date][event_type] = adjustedHour, creating acc[date] when missing
SetField(acc, date, key, value) ==
  LET i == IndexOfDate(acc, date, 1)
      base == IF i = 0 THEN Append(acc, EmptyDay(date)) ELSE acc
      j == IF i = 0 THEN Len(acc) + 1 ELSE i
  IN [base EXCEPT ![j] = [@ EXCEPT ![key] = Num(value)]]

\* the reducer of processEventData applied to one event; acc is the
\* accumulator object as the sequence of its values in key insertion order
ReduceEvent(acc, event) ==
  LET melbourneDate == toZonedTime(event.created_at, TIMEZONE)
      hour == getHours(melbourneDate)
      normalizedHour == Hours(hour) + getMinutes(melbourneDate)
      shouldAdjustDate == event.event_type = "asleep" /\ hour < DAY_PIVOT_HOUR
      adjustedDate == IF shouldAdjustDate
                      THEN melbourneDate - TicksPerDay
                      ELSE melbourneDate
      date == formatInTimeZone(adjustedDate, TIMEZONE)
      adjustedHour == IF shouldAdjustDate
                      THEN normalizedHour + TicksPerDay
                      ELSE normalizedHour
  IN SetField(acc, date, event.event_type, adjustedHour)

RECURSIVE ReduceEvents(_, _, _)
ReduceEvents(acc, evs, i) ==
  IF i > Len(evs) THEN acc
  ELSE ReduceEvents(ReduceEvent(acc, evs[i]), evs, i + 1)

\* Array.prototype.sort by date key (stable insertion into a sorted prefix)
RECURSIVE InsertByDate(_, _)
InsertByDate(sorted, d) ==
  IF sorted = << >> THEN <<d>>
  ELSE IF d.date < Head(sorted).date THEN <<d>> \o sorted
  ELSE <<Head(sorted)>> \o InsertByDate(Tail(sorted), d)

RECURSIVE SortByDateFrom(_, _, _)
SortByDateFrom(sorted, s, i) ==
  IF i > Len(s) THEN sorted
  ELSE SortByDateFrom(InsertByDate(sorted, s[i]), s, i + 1)

\* the array left in key insertion order (no sort)
SortByDateOmitted(s) == s

SortByDate(s) == SortByDateFrom(<< >>, s, 1)

processEventData(evs) == SortByDate(ReduceEvents(<< >>, evs, 1))

\* fetchData's merge of journal scores into the day records (the callback of
\* processedEvents.map)
MergeDay(dayData, js) ==
  LET date == dayData.date
      dayJournals == SelectSeq(js, LAMBDA j :
          formatInTimeZone(toZonedTime(j.created_at, TIMEZONE), TIMEZONE) = date)
  IN IF Len(dayJournals) > 0
     THEN LET latestJournal == dayJournals[Len(dayJournals)]
          IN [dayData EXCEPT !.mood_score = Num(latestJournal.mood_score),
                             !.energy_score = Num(latestJournal.energy_score)]
     ELSE dayData

MergeJournals(days, js) == [k \in 1..Len(days) |-> MergeDay(days[k], js)]

\* the value of result before any analyzer has run
NoResult == [analyzer |-> "none"]

(***************************************************************************)
(* Inputs of the aggregation specifications                                *)
(***************************************************************************)
MaxEvents == 2
MaxJournals == 2

SeqUpTo(S, n) == UNION {[1..k -> S] : k \in 0..n}

\* the instant at which Melbourne's wall clock reads h:m on model day d
At(d, h, m) ==
  FromWallClock(TIMEZONE, (d * TicksPerDay) + Hours(h) + (m \div TickMinutes))

EventInstants ==
  {At(1, 17, 0), At(1, 23, 0), At(2, 1, 0), At(3, 0, 30), At(3, 9, 0)}

DailyLog == [created_at : EventInstants, event_type : EventTypes]

JournalInstants == {At(1, 8, 0), At(1, 21, 0), At(2, 8, 0)}

JournalEntry ==
  {[created_at |-> t, mood_score |-> sc[1], energy_score |-> sc[2]] :
     t \in JournalInstants, sc \in {<<3, 6>>, <<7, 4>>}}

\* daily_log rows of the fetch specification: work_end logged at 17:00 on
\* day 1 and on day 2, in either order
FetchEventRows ==
  LET a == [created_at |-> At(1, 17, 0), event_type |-> "work_end"]
      b == [created_at |-> At(2, 17, 0), event_type |-> "work_end"]
  IN {<< >>, <<a>>, <<a, b>>, <<b, a>>}

SysTimeZones == {TIMEZONE, "UTC"}

(***************************************************************************)
(* Actions of the aggregation specifications                               *)
(***************************************************************************)
\* const processedEvents = processEventData(events)
ProcessEvents ==
  /\ pc = "input"
  /\ processed' = processEventData(events)
  /\ pc' = "processed"
  /\ UNCHANGED <<sysTz, events, journals, merged, data, result>>
  /\ UNCHANGED dashboardVars

\* const mergedData = processedEvents.map(...); setTimelineData(mergedData)
MergeJournalData ==
  /\ pc = "processed"
  /\ merged' = MergeJournals(processed, journals)
  /\ pc' = "merged"
  /\ UNCHANGED <<sysTz, events, journals, processed, data, result>>
  /\ UNCHANGED dashboardVars

InitAgg ==
  /\ sysTz \in SysTimeZones
  /\ events \in SeqUpTo(DailyLog, MaxEvents)
  /\ journals = << >>
  /\ processed = << >>
  /\ merged = << >>
  /\ NoDashboard
  /\ data = << >>
  /\ result = NoResult
  /\ pc = "input"

NextAgg == ProcessEvents

SpecAgg == InitAgg /\ [][NextAgg]_vars

InitFetch ==
  /\ sysTz \in SysTimeZones
  /\ events \in FetchEventRows
  /\ journals \in SeqUpTo(JournalEntry, MaxJournals)
  /\ processed = << >>
  /\ merged = << >>
  /\ NoDashboard
  /\ data = << >>
  /\ result = NoResult
  /\ pc = "input"

NextFetch == ProcessEvents \/ MergeJournalData

SpecFetch == InitFetch /\ [][NextFetch]_vars

(***************************************************************************)
(* Properties of the aggregation                                           *)
(***************************************************************************)
\* the wall clock of the reference time zone at instant t, whatever the
\* runtime's own zone is
LocalDate(t) == WallClock(TIMEZONE, t) \div TicksPerDay
LocalHour(t) == (WallClock(TIMEZONE, t) % TicksPerDay) \div TicksPerHour
LocalMinute(t) == WallClock(TIMEZONE, t) % TicksPerHour
LocalHourValue(t) == Hours(LocalHour(t)) + LocalMinute(t)

Max(S) == CHOOSE x \in S : \A y \in S : y <= x

\* the date key and the value the reducer gives one event on its own
CodeSlot(e) ==
  LET r == ReduceEvent(<< >>, e)[1]
  IN [date |-> r.date, value |-> r[e.event_type]]

\* the date key and the value the specification gives a sleep event
AsleepSlot(e) ==
  IF LocalHour(e.created_at) < DAY_PIVOT_HOUR
  THEN [date |-> LocalDate(e.created_at) - 1,
        value |-> Num(LocalHourValue(e.created_at) + TicksPerDay)]
  ELSE [date |-> LocalDate(e.created_at),
        value |-> Num(LocalHourValue(e.created_at))]

\* the date key and the value the specification gives any other event
FoldedSlot(e) ==
  [date |-> LocalDate(e.created_at),
   value |-> IF LocalHour(e.created_at) < DAY_PIVOT_HOUR
             THEN Num(LocalHourValue(e.created_at) + TicksPerDay)
             ELSE Num(LocalHourValue(e.created_at))]

\* event i is on record under slot, unless a later event of its type took
\* the same date
Recorded(i, slot, Slot(_)) ==
  \E k \in 1..Len(processed) :
    /\ processed[k].date = slot.date
    /\ \/ processed[k][events[i].event_type] = slot.value
       \/ \E j \in (i + 1)..Len(events) :
            /\ events[j].event_type = events[i].event_type
            /\ Slot(events[j]).date = slot.date

\* C3: every 'asleep' event before the pivot hour (18) is recorded under the
\* day before its local date with value h + minutes/60 + 24, and every
\* 'asleep' event from the pivot hour on under its own local date with value
\* h + minutes/60.
C3_AsleepBackdated ==
  pc # "input" =>
    \A i \in 1..Len(events) :
      events[i].event_type = "asleep" =>
        Recorded(i, AsleepSlot(events[i]), AsleepSlot)

\* C4: every event that is not 'asleep' is recorded under its own local date
\* with the pivot-folded hour: h + 24 below the pivot hour, h otherwise.
C4_OtherEventsFolded ==
  pc # "input" =>
    \A i \in 1..Len(events) :
      events[i].event_type # "asleep" =>
        Recorded(i, FoldedSlot(events[i]), FoldedSlot)

\* the events, by index, that the reducer files under (date, ty)
EventsFiledUnder(date, ty) ==
  {i \in 1..Len(events) :
     events[i].event_type = ty /\ CodeSlot(events[i]).date = date}

\* C5: each day record holds, per event type, the value derived from the
\* last event in input order filed under that (date, event type), and no
\* value when there is no such event.
C5_LastEventWins ==
  pc # "input" =>
    \A k \in 1..Len(processed) : \A ty \in EventTypes :
      LET filed == EventsFiledUnder(processed[k].date, ty)
      IN IF filed = {}
         THEN processed[k][ty] = Null
         ELSE processed[k][ty] = CodeSlot(events[Max(filed)]).value

\* two events of one type filed under one date with different values,
\* aggregated
C5_Witness ==
  /\ pc = "processed"
  /\ \E i, j \in 1..Len(events) :
       /\ i < j
       /\ events[i].event_type = events[j].event_type
       /\ CodeSlot(events[i]).date = CodeSlot(events[j]).date
       /\ CodeSlot(events[i]).value # CodeSlot(events[j]).value

\* the journal entries, by index, written on local date d
JournalsOfDate(d) ==
  {i \in 1..Len(journals) : LocalDate(journals[i].created_at) = d}

\* C6: a merged day with journal entries on its local date carries the
\* mood_score and energy_score of the chronologically latest of them,
\* whatever the order of the journal array.
C6_LatestJournalWins ==
  pc = "merged" =>
    \A k \in 1..Len(merged) :
      LET js == JournalsOfDate(merged[k].date)
      IN js # {} =>
           \E i \in js :
             /\ \A j \in js : journals[j].created_at <= journals[i].created_at
             /\ merged[k].mood_score = Num(journals[i].mood_score)
             /\ merged[k].energy_score = Num(journals[i].energy_score)

\* C7: the returned array is in strictly ascending date order, holds exactly
\* one record per date key some event was filed under, and is empty for an
\* empty event array.
C7_SortedOnePerDate ==
  pc # "input" =>
    /\ \A k \in 1..(Len(processed) - 1) :
         processed[k].date < processed[k + 1].date
    /\ {processed[k].date : k \in 1..Len(processed)}
         = {CodeSlot(events[i]).date : i \in 1..Len(events)}
    /\ events = << >> => processed = << >>

\* events of a later date before events of an earlier date, aggregated
C7_Witness ==
  /\ pc = "processed"
  /\ Len(processed) >= 2
  /\ \E i, j \in 1..Len(events) :
       i < j /\ CodeSlot(events[i]).date > CodeSlot(events[j]).date

(***************************************************************************)
(* Statistics primitives.  Scores and hour values are integers here, so    *)
(* every sum is exact; a mean, a p-value and a squared effect size are     *)
(* rationals num/den with den > 0.                                         *)
(***************************************************************************)
RECURSIVE SumFrom(_, _)
SumFrom(s, i) == IF i > Len(s) THEN 0 ELSE s[i] + SumFrom(s, i + 1)

\* s.reduce((a, b) => a + b, 0)
Sum(s) == SumFrom(s, 1)

SumOfProducts(x, y) == Sum([i \in 1..Len(x) |-> x[i] * y[i]])

Abs(a) == IF a < 0 THEN 0 - a ELSE a

Rat(n, d) == [num |-> n, den |-> d]
RatLess(a, b) == a.num * b.den < b.num * a.den
RatEqual(a, b) == a.num * b.den = b.num * a.den

\* scores.reduce((sum, score) => sum + score, 0) / scores.length
Mean(scores) == Rat(Sum(scores), Len(scores))

\* n times the sum over i of (x[i] - xMean) * (y[i] - yMean)
Variation(x, y) == (Len(x) * SumOfProducts(x, y)) - (Sum(x) * Sum(y))

(***************************************************************************)
(* The numbers of calculateCorrelation.  The function tests its sums of    *)
(* squares against 0 exactly, so the rounding of its arithmetic is part of *)
(* what it computes: a number is a binary floating-point value m * 2^e     *)
(* rounded to nearest, ties to even, as IEEE 754 does, with the 53-bit     *)
(* significand of a double scaled down to SignificandBits bits (9 and 53   *)
(* leave the same remainder modulo 4, the period of the binary expansion   *)
(* of 1/60, so the same minutes round up and down).  The exponent is not   *)
(* bounded: there is no overflow and no underflow.                         *)
(***************************************************************************)
SignificandBits == 9

Float(m, e) == [m |-> m, e |-> e]

Zero == Float(0, 0)

\* the number of bits of the natural number n
BitLength(n) ==
  CHOOSE k \in 0..(3 * SignificandBits) : n < 2^k /\ (k = 0 \/ 2^(k - 1) <= n)

\* sign * m * 2^e, m having grown to SignificandBits + 1 bits by rounding up
Carried(sign, m, e) ==
  IF m = 2^SignificandBits THEN Float(sign * 2^(SignificandBits - 1), e + 1)
  ELSE Float(sign * m, e)

\* sign * kept * 2^e with the dropped bits rest, of which half is the top one
Rounded(sign, kept, rest, half, inexact, e) ==
  IF rest > half \/ (rest = half /\ (inexact \/ kept % 2 = 1))
  THEN Carried(sign, kept + 1, e)
  ELSE Float(sign * kept, e)

\* Round for n > 0 with drop bits more than a significand holds
RoundBits(sign, n, e, inexact, drop) ==
  IF drop <= 0 THEN Float(sign * n * 2^(0 - drop), e + drop)
  ELSE Rounded(sign, n \div 2^drop, n % 2^drop, 2^(drop - 1), inexact,
               e + drop)

\* sign * (n + a fraction) * 2^e rounded to a significand of exactly
\* SignificandBits bits; inexact tells that the fraction is not 0
Round(sign, n, e, inexact) ==
  IF n = 0 THEN Zero
  ELSE RoundBits(sign, n, e, inexact, BitLength(n) - SignificandBits)

Sign(n) == IF n < 0 THEN 0 - 1 ELSE 1

\* v * 2^e for an integer v
RoundInteger(v, e) == Round(Sign(v), Abs(v), e, FALSE)

\* an integer as a number
FromInteger(v) == RoundInteger(v, 0)

One == FromInteger(1)

Negate(a) == Float(0 - a.m, a.e)

\* hi + lo, hi having the larger exponent
Aligned(hi, lo) ==
  IF hi.e - lo.e > SignificandBits + 1 THEN hi  \* lo is below half an ulp
  ELSE RoundInteger((hi.m * 2^(hi.e - lo.e)) + lo.m, lo.e)

\* a + b
Plus(a, b) ==
  IF a.m = 0 THEN b
  ELSE IF b.m = 0 THEN a
  ELSE Aligned(IF a.e >= b.e THEN a ELSE b, IF a.e >= b.e THEN b ELSE a)

\* a - b
Minus(a, b) == Plus(a, Negate(b))

\* a * b
Times(a, b) == RoundInteger(a.m * b.m, a.e + b.e)

\* sign * (n / d) * 2^e
Quotient(sign, n, d, e) == Round(sign, n \div d, e, n % d # 0)

\* a / b, for b # 0
Over(a, b) ==
  Quotient(Sign(a.m) * Sign(b.m), Abs(a.m) * 2^(SignificandBits + 1),
           Abs(b.m), a.e - b.e - (SignificandBits + 1))

\* the largest s with s * s <= n, found bit by bit from 2^k down
RECURSIVE IntegerSquareRoot(_, _, _)
IntegerSquareRoot(n, s, k) ==
  IF k < 0 THEN s
  ELSE IF (s + 2^k) * (s + 2^k) <= n
       THEN IntegerSquareRoot(n, s + 2^k, k - 1)
       ELSE IntegerSquareRoot(n, s, k - 1)

\* the square root of n * 2^(2 * e), s being the integer square root of n
RootRounded(n, s, e) == Round(1, s, e, s * s # n)

\* Math.sqrt(a) from the significand shifted by shift bits
ScaledRoot(a, shift) ==
  RootRounded(a.m * 2^shift,
              IntegerSquareRoot(a.m * 2^shift, 0, SignificandBits + 1),
              (a.e - shift) \div 2)

\* Math.sqrt(a), for a > 0: the shift leaves an even exponent
SquareRoot(a) ==
  ScaledRoot(a, IF (a.e - (SignificandBits + 1)) % 2 = 0
                THEN SignificandBits + 1 ELSE SignificandBits + 2)

\* a < b
Less(a, b) == Minus(a, b).m < 0

\* x.reduce((a, b) => a + b, 0)
RECURSIVE TotalFrom(_, _, _)
TotalFrom(s, acc, i) ==
  IF i > Len(s) THEN acc ELSE TotalFrom(s, Plus(acc, s[i]), i + 1)

Total(s) == TotalFrom(s, Zero, 1)

\* the array f with each of its elements computed
Array(f) == f \o << >>

\* hour + getMinutes() / 60 of a time of day held in ticks
HourNumber(v) ==
  Plus(FromInteger(v \div TicksPerHour),
       Over(FromInteger((v % TicksPerHour) * TickMinutes),
            FromInteger(MINUTES_PER_HOUR)))

Numbers(s) == Array([i \in 1..Len(s) |-> FromInteger(s[i])])

ZeroCorrelation == Zero

\* |r| < a/b, a/b being the literal 0.1, 0.3 ... of the code
AbsCorrelationLess(r, a, b) ==
  Less(IF r.m < 0 THEN Negate(r) ELSE r, Over(FromInteger(a), FromInteger(b)))

\* the last lines of calculateCorrelation: the result kept within [-1, 1]
CorrelationClamped(correlation) ==
  IF Less(One, correlation) THEN One
  ELSE IF Less(correlation, Negate(One)) THEN Negate(One)
  ELSE correlation

\* CorrelationOfVars that divides by the variation of x alone: the slope of
\* the regression line instead of the correlation
CorrelationOfVarsSlope(xxVar, yyVar, xyVar) ==
  IF xxVar = Zero \/ yyVar = Zero THEN Zero
  ELSE CorrelationClamped(Over(xyVar, xxVar))

\* calculateCorrelation after its loop
CorrelationOfVars(xxVar, yyVar, xyVar) ==
  IF xxVar = Zero \/ yyVar = Zero THEN Zero
  ELSE CorrelationClamped(Over(xyVar, SquareRoot(Times(xxVar, yyVar))))

\* the loop of calculateCorrelation over the differences from the means
CorrelationOfDiffs(xDiff, yDiff) ==
  CorrelationOfVars(
    Total([i \in 1..Len(xDiff) |-> Times(xDiff[i], xDiff[i])]),
    Total([i \in 1..Len(xDiff) |-> Times(yDiff[i], yDiff[i])]),
    Total([i \in 1..Len(xDiff) |-> Times(xDiff[i], yDiff[i])]))

\* calculateCorrelation from its means on
CorrelationAbout(x, y, xMean, yMean) ==
  CorrelationOfDiffs(Array([i \in 1..Len(x) |-> Minus(x[i], xMean)]),
                     Array([i \in 1..Len(x) |-> Minus(y[i], yMean)]))

calculateCorrelation(x, y) ==
  IF Len(x) < 2 THEN Zero
  ELSE CorrelationAbout(x, y, Over(Total(x), FromInteger(Len(x))),
                        Over(Total(y), FromInteger(Len(x))))

getCorrelationStrength(correlation) ==
  IF AbsCorrelationLess(correlation, 1, 10) THEN "negligible"
  ELSE IF AbsCorrelationLess(correlation, 3, 10) THEN "weak"
  ELSE IF AbsCorrelationLess(correlation, 5, 10) THEN "moderate"
  ELSE IF AbsCorrelationLess(correlation, 7, 10) THEN "strong"
  ELSE "very strong"

\* IsConstant that only takes a single value for constant
IsConstantSingle(group) == Len(group) = 1

\* group.every(val => val === group[0])
IsConstant(group) == \A i \in 1..Len(group) : group[i] = group[1]

\* the sample variance, Variation / (n * (n - 1)), in place of the population
\* variance
VarianceOfSample(values) ==
  Rat(Variation(values, values), Len(values) * (Len(values) - 1))

\* simple-statistics standardDeviation(values) squared: the population
\* variance, as the rational Variation / n^2
Variance(values) == Rat(Variation(values, values), Len(values) * Len(values))

\* simple-statistics tTest(sample, expectedValue) is the one-sample test
\* (mean(sample) - expectedValue) / (sd / sqrt(n)); calculatePValue hands it
\* an array of two or more numbers as expectedValue, so the difference and
\* the result are NaN
tTest(group1, group2) == "NaN"

calculatePValue(group1, group2) ==
  LET n1 == Len(group1)
      n2 == Len(group2)
      maxPossibleDiff == 10
      \* |mean1 - mean2| = diffNum / (n1 * n2)
      diffNum == Abs((Sum(group1) * n2) - (Sum(group2) * n1))
      scale == maxPossibleDiff * n1 * n2
  IN IF n1 < 2 \/ n2 < 2 THEN Rat(1, 1)
     ELSE IF IsConstant(group1) /\ IsConstant(group2) /\ group1[1] = group2[1]
          THEN Rat(1, 1)
     ELSE IF IsConstant(group1) /\ IsConstant(group2) THEN Rat(1, 10000)
     ELSE IF tTest(group1, group2) # "NaN" THEN tTest(group1, group2)
     ELSE \* 1 - Math.min(1, actualDiff / maxPossibleDiff)
          IF diffNum >= scale THEN Rat(0, scale)
          ELSE Rat(scale - diffNum, scale)

\* Cohen's d, held as its square num/den ("finite"), as Infinity (a positive
\* difference over a pooled deviation of 0) or as NaN (0 / 0)
calculateEffectSize(group1, group2) ==
  LET n1 == Len(group1)
      n2 == Len(group2)
      diffNum == (Sum(group1) * n2) - (Sum(group2) * n1)
      \* pooledStdev^2 = pooledNum / (n1^2 * n2^2 * (n1 + n2 - 2))
      pooledNum == ((n1 - 1) * Variation(group1, group1) * n2 * n2)
                   + ((n2 - 1) * Variation(group2, group2) * n1 * n1)
  IN IF pooledNum = 0
     THEN IF diffNum = 0 THEN [kind |-> "NaN", num |-> 0, den |-> 1]
          ELSE [kind |-> "Infinity", num |-> 1, den |-> 1]
     ELSE [kind |-> "finite",
           num |-> diffNum * diffNum * (n1 + n2 - 2), den |-> pooledNum]

\* effectSize > a/b, as JavaScript compares (false for NaN)
EffectSizeGreater(effectSize, a, b) ==
  \/ effectSize.kind = "Infinity"
  \/ /\ effectSize.kind = "finite"
     /\ b * b * effectSize.num > a * a * effectSize.den

\* pValue < a/b
PValueLess(pValue, a, b) == RatLess(pValue, Rat(a, b))

(***************************************************************************)
(* Insight analyzers.  An insight text is held as the choices that build   *)
(* it: which sentence (kind), which cohort it recommends (better), the     *)
(* confidence phrase, the two averages and the closing remark.             *)
(***************************************************************************)
Insight(kind) ==
  [kind |-> kind, better |-> "", confidence |-> "",
   betterAvg |-> Null, worseAvg |-> Null, substantial |-> FALSE]

\* validData.length < 2 (one observation short)
TooFewBelowTwo(n) == n < 2

\* validData.length < 3
TooFew(n) == n < 3

\* the result returned when fewer than 3 observations are valid
InsufficientData(n) ==
  [correlation |-> ZeroCorrelation,
   averageScore |-> Rat(0, 1),
   sampleSize |-> n,
   insight |-> Insight("not enough data"),
   pValue |-> Null,
   effectSize |-> Null,
   standardDev |-> Null,
   correlationStrength |-> "insufficient data"]

\* scores.length > 0 ? mean of scores : null
AverageOrNull(scores) == IF Len(scores) > 0 THEN Num(Mean(scores)) ELSE Null

\* NeedMoreVariedData without the cohort mean (averageScore left at 0)
NeedMoreVariedDataZeroAverage(n, firstAvg, secondAvg) ==
  [correlation |-> ZeroCorrelation,
   averageScore |-> Rat(0, 1),
   sampleSize |-> n,
   insight |-> Insight("need more varied data"),
   pValue |-> Null,
   effectSize |-> Null,
   standardDev |-> Null,
   correlationStrength |-> "insufficient data"]

\* the result returned when one of the two cohorts is empty
NeedMoreVariedData(n, firstAvg, secondAvg) ==
  [correlation |-> ZeroCorrelation,
   averageScore |-> IF firstAvg # Null THEN Value(firstAvg)
                    ELSE IF secondAvg # Null THEN Value(secondAvg)
                    ELSE Rat(0, 1),
   sampleSize |-> n,
   insight |-> Insight("need more varied data"),
   pValue |-> Null,
   effectSize |-> Null,
   standardDev |-> Null,
   correlationStrength |-> "insufficient data"]

\* ConfidencePhrase with the weakest rule tested first
ConfidencePhraseWeakestFirst(pValue, effectSize) ==
  IF pValue # Null /\ effectSize # Null
  THEN IF PValueLess(Value(pValue), 1, 10)
          /\ EffectSizeGreater(Value(effectSize), 2, 10)
       THEN "some evidence"
       ELSE IF PValueLess(Value(pValue), 5, 100)
               /\ EffectSizeGreater(Value(effectSize), 5, 10)
       THEN "strong evidence"
       ELSE IF PValueLess(Value(pValue), 1, 100)
               /\ EffectSizeGreater(Value(effectSize), 8, 10)
       THEN "very strong evidence"
       ELSE ""
  ELSE ""

\* the confidence phrase of the insight
ConfidencePhrase(pValue, effectSize) ==
  IF pValue # Null /\ effectSize # Null
  THEN IF PValueLess(Value(pValue), 1, 100)
          /\ EffectSizeGreater(Value(effectSize), 8, 10)
       THEN "very strong evidence"
       ELSE IF PValueLess(Value(pValue), 5, 100)
               /\ EffectSizeGreater(Value(effectSize), 5, 10)
       THEN "strong evidence"
       ELSE IF PValueLess(Value(pValue), 1, 10)
               /\ EffectSizeGreater(Value(effectSize), 2, 10)
       THEN "some evidence"
       ELSE ""
  ELSE ""

\* the word for the cohort the insight recommends, from
\* scoreDiff = firstAvg - secondAvg
\* BetterCohort with the two words exchanged
BetterCohortReversed(firstAvg, secondAvg, firstWord, secondWord) ==
  IF RatLess(secondAvg, firstAvg) THEN secondWord ELSE firstWord

BetterCohort(firstAvg, secondAvg, firstWord, secondWord) ==
  IF RatLess(secondAvg, firstAvg) THEN firstWord ELSE secondWord

\* The part the four analyzers share once the observations are split:
\* values and scores are the correlated series, firstScores and secondScores
\* the scores of the early/short and of the late/long cohort.
CompareCohorts(n, values, scores, firstScores, secondScores, firstWord, secondWord) ==
  LET firstAvg == AverageOrNull(firstScores)
      secondAvg == AverageOrNull(secondScores)
      correlation == IF Len(values) >= 2
                     THEN calculateCorrelation(Array(values), Numbers(scores))
                     ELSE ZeroCorrelation
      enough == Len(firstScores) >= 2 /\ Len(secondScores) >= 2
      pValue == IF enough
                THEN Num(calculatePValue(firstScores, secondScores))
                ELSE Null
      effectSize == IF enough
                    THEN Num(calculateEffectSize(firstScores, secondScores))
                    ELSE Null
      standardDev == IF Len(scores) >= 2 THEN Num(Variance(scores)) ELSE Null
      better == BetterCohort(Value(firstAvg), Value(secondAvg),
                             firstWord, secondWord)
      insight ==
        IF AbsCorrelationLess(correlation, 1, 10)
        THEN Insight("no relationship")
        ELSE [kind |-> "recommendation",
              better |-> better,
              confidence |-> ConfidencePhrase(pValue, effectSize),
              betterAvg |-> IF better = firstWord THEN firstAvg ELSE secondAvg,
              worseAvg |-> IF better = firstWord THEN secondAvg ELSE firstAvg,
              substantial |-> /\ effectSize # Null
                              /\ EffectSizeGreater(Value(effectSize), 5, 10)]
  IN IF firstAvg = Null \/ secondAvg = Null
     THEN NeedMoreVariedData(n, firstAvg, secondAvg)
     ELSE [correlation |-> correlation,
           averageScore |-> Value(firstAvg),
           sampleSize |-> n,
           insight |-> insight,
           pValue |-> pValue,
           effectSize |-> effectSize,
           standardDev |-> standardDev,
           correlationStrength |-> getCorrelationStrength(correlation)]

\* data.filter(d => every key of keys holds a number)
ValidData(days, keys) ==
  SelectSeq(days, LAMBDA d : \A key \in keys : d[key] # Null)

\* the positions from i on at which kept is TRUE, in order
\* (Array.prototype.filter, with the elements named by their position, as
\* includes() tells them apart)
RECURSIVE FilterIndices(_, _)
FilterIndices(kept, i) ==
  IF i > Len(kept) THEN << >>
  ELSE IF kept[i] THEN <<i>> \o FilterIndices(kept, i + 1)
  ELSE FilterIndices(kept, i + 1)

Range(s) == {s[i] : i \in 1..Len(s)}

\* validData.filter(d => !earlyDays.includes(d))
Excluded(s, indices) ==
  FilterIndices([i \in 1..Len(s) |-> i \notin Range(indices)], 1)

\* EventScoreNormalizedTime without the fold of early-morning sleep
EventScoreNormalizedTimeUnfolded(eventType, eventTime) ==
  IF eventType = "asleep"
  THEN eventTime
  ELSE IF eventTime >= Hours(HOURS_IN_DAY)
       THEN eventTime - Hours(HOURS_IN_DAY)
       ELSE eventTime

\* the hour that analyseEventScoreRelationship compares with the threshold
EventScoreNormalizedTime(eventType, eventTime) ==
  IF eventType = "asleep"
  THEN IF eventTime < Hours(DAY_PIVOT_HOUR)
       THEN eventTime + Hours(HOURS_IN_DAY)
       ELSE eventTime
  ELSE IF eventTime >= Hours(HOURS_IN_DAY)
       THEN eventTime - Hours(HOURS_IN_DAY)
       ELSE eventTime

\* earlyDays of analyseEventScoreRelationship, as indices of validData
EventScoreEarlyDays(validData, eventType, earlyThreshold) ==
  FilterIndices(
    [i \in 1..Len(validData) |->
       EventScoreNormalizedTime(eventType, Value(validData[i][eventType]))
         <= earlyThreshold - Hours(DAY_PIVOT_HOUR)], 1)

\* the hour that analyseEventScoreRelationship correlates with the score
EventScoreCorrelationTime(time) ==
  IF time >= Hours(HOURS_IN_DAY)
  THEN Minus(HourNumber(time), FromInteger(HOURS_IN_DAY))
  ELSE HourNumber(time)

analyseEventScoreRelationship(days, eventType, scoreType, earlyThreshold) ==
  LET validData == ValidData(days, {eventType, scoreType})
      earlyDays == EventScoreEarlyDays(validData, eventType, earlyThreshold)
      lateDays == Excluded(validData, earlyDays)
      earlyScores == [k \in 1..Len(earlyDays) |->
                        Value(validData[earlyDays[k]][scoreType])]
      lateScores == [k \in 1..Len(lateDays) |->
                       Value(validData[lateDays[k]][scoreType])]
      times == [i \in 1..Len(validData) |->
                  EventScoreCorrelationTime(Value(validData[i][eventType]))]
      scores == [i \in 1..Len(validData) |-> Value(validData[i][scoreType])]
  IN IF TooFew(Len(validData)) THEN InsufficientData(Len(validData))
     ELSE CompareCohorts(Len(validData), times, scores,
                         earlyScores, lateScores, "earlier", "later")

\* dataWithDurations / dataWithGaps: the span from the first event to the
\* second of each valid day, and the day's score
WithDurations(validData, startEventType, endEventType, scoreType) ==
  [i \in 1..Len(validData) |->
     LET startTime == Value(validData[i][startEventType])
         endTime == IF Value(validData[i][endEventType]) < startTime
                    THEN Value(validData[i][endEventType]) + Hours(HOURS_IN_DAY)
                    ELSE Value(validData[i][endEventType])
     IN [duration |-> endTime - startTime,
         score |-> Value(validData[i][scoreType])]]

\* ShortDuration with a strict comparison
ShortDurationStrict(dataWithDurations, durationThreshold) ==
  SelectSeq(dataWithDurations, LAMBDA d : d.duration < durationThreshold)

ShortDuration(dataWithDurations, durationThreshold) ==
  SelectSeq(dataWithDurations, LAMBDA d : d.duration <= durationThreshold)

\* endTime - startTime as the number the code computes, correlated with
\* the score
DurationNumber(startTime, endTime) ==
  Minus(IF endTime < startTime
        THEN Plus(HourNumber(endTime), FromInteger(HOURS_IN_DAY))
        ELSE HourNumber(endTime),
        HourNumber(startTime))

LongDuration(dataWithDurations, durationThreshold) ==
  SelectSeq(dataWithDurations, LAMBDA d : d.duration > durationThreshold)

analyseDurationImpact(days, startEventType, endEventType, scoreType, durationThreshold) ==
  LET validData == ValidData(days, {startEventType, endEventType, scoreType})
      dataWithDurations ==
        WithDurations(validData, startEventType, endEventType, scoreType)
      shortDuration == ShortDuration(dataWithDurations, durationThreshold)
      longDuration == LongDuration(dataWithDurations, durationThreshold)
      shortScores == [k \in 1..Len(shortDuration) |-> shortDuration[k].score]
      longScores == [k \in 1..Len(longDuration) |-> longDuration[k].score]
      durations == [i \in 1..Len(validData) |->
                      DurationNumber(Value(validData[i][startEventType]),
                                     Value(validData[i][endEventType]))]
      scores == [i \in 1..Len(validData) |-> dataWithDurations[i].score]
  IN IF TooFew(Len(validData)) THEN InsufficientData(Len(validData))
     ELSE CompareCohorts(Len(validData), durations, scores,
                         shortScores, longScores, "shorter", "longer")

\* analyseSequentialEvents with the short cohort cut by gap < gapThreshold
analyseSequentialEventsStrict(days, firstEventType, secondEventType, scoreType, gapThreshold) ==
  LET validData == ValidData(days, {firstEventType, secondEventType, scoreType})
      dataWithGaps ==
        WithDurations(validData, firstEventType, secondEventType, scoreType)
      shortGap == SelectSeq(dataWithGaps, LAMBDA d : d.duration < gapThreshold)
      longGap == SelectSeq(dataWithGaps, LAMBDA d : d.duration >= gapThreshold)
      shortScores == [k \in 1..Len(shortGap) |-> shortGap[k].score]
      longScores == [k \in 1..Len(longGap) |-> longGap[k].score]
      gaps == [i \in 1..Len(validData) |->
                 DurationNumber(Value(validData[i][firstEventType]),
                                Value(validData[i][secondEventType]))]
      scores == [i \in 1..Len(validData) |-> dataWithGaps[i].score]
  IN IF TooFew(Len(validData)) THEN InsufficientData(Len(validData))
     ELSE CompareCohorts(Len(validData), gaps, scores,
                         shortScores, longScores, "shorter", "longer")

analyseSequentialEvents(days, firstEventType, secondEventType, scoreType, gapThreshold) ==
  LET validData == ValidData(days, {firstEventType, secondEventType, scoreType})
      dataWithGaps ==
        WithDurations(validData, firstEventType, secondEventType, scoreType)
      shortGap == ShortDuration(dataWithGaps, gapThreshold)
      longGap == LongDuration(dataWithGaps, gapThreshold)
      shortScores == [k \in 1..Len(shortGap) |-> shortGap[k].score]
      longScores == [k \in 1..Len(longGap) |-> longGap[k].score]
      gaps == [i \in 1..Len(validData) |->
                 DurationNumber(Value(validData[i][firstEventType]),
                                Value(validData[i][secondEventType]))]
      scores == [i \in 1..Len(validData) |-> dataWithGaps[i].score]
  IN IF TooFew(Len(validData)) THEN InsufficientData(Len(validData))
     ELSE CompareCohorts(Len(validData), gaps, scores,
                         shortScores, longScores, "shorter", "longer")

\* dateMap: the days keyed by date, in key insertion order, a later day of
\* the same date replacing the earlier one
RECURSIVE DateMapFrom(_, _, _)
DateMapFrom(acc, days, i) ==
  IF i > Len(days) THEN acc
  ELSE LET at == IndexOfDate(acc, days[i].date, 1)
       IN DateMapFrom(IF at = 0 THEN Append(acc, days[i])
                      ELSE [acc EXCEPT ![at] = days[i]],
                      days, i + 1)

DateMap(days) == DateMapFrom(<< >>, days, 1)

\* new Date(date): a 'yyyy-MM-dd' string is read as midnight UTC
ParseDate(date) == date * TicksPerDay

\* Date.prototype.setDate(getDate() + days): the same wall clock in the
\* runtime's zone, days later
AddDays(d, days) ==
  FromWallClock(sysTz, WallClock(sysTz, d) + (days * TicksPerDay))

\* PreviousDate without the step back: the date itself
PreviousDateSameDay(date) == formatInTimeZone(ParseDate(date), TIMEZONE)

\* prevDate.setDate(prevDate.getDate() - 1) formatted as a Melbourne date
PreviousDate(date) == formatInTimeZone(AddDays(ParseDate(date), -1), TIMEZONE)

\* validPairs: for each date of dateMap in order, the previous day's event
\* with the day's score, when both are numbers
RECURSIVE ValidPairsFrom(_, _, _, _)
ValidPairsFrom(dateMap, eventType, scoreType, i) ==
  IF i > Len(dateMap) THEN << >>
  ELSE LET dayData == dateMap[i]
           at == IndexOfDate(dateMap, PreviousDate(dayData.date), 1)
           rest == ValidPairsFrom(dateMap, eventType, scoreType, i + 1)
       IN IF at # 0 /\ dateMap[at][eventType] # Null /\ dayData[scoreType] # Null
          THEN <<[prevDayEvent |-> Value(dateMap[at][eventType]),
                  nextDayScore |-> Value(dayData[scoreType])]>> \o rest
          ELSE rest

ValidPairs(days, eventType, scoreType) ==
  ValidPairsFrom(DateMap(days), eventType, scoreType, 1)

\* the hour that analysePreviousDayImpact compares with the threshold
PreviousDayNormalizedTime(prevDayEvent) ==
  IF prevDayEvent < Hours(DAY_PIVOT_HOUR)
  THEN prevDayEvent + Hours(HOURS_IN_DAY)
  ELSE prevDayEvent

\* earlyGroup of analysePreviousDayImpact, as indices of validPairs
PreviousDayEarlyGroup(validPairs, threshold) ==
  FilterIndices(
    [i \in 1..Len(validPairs) |->
       PreviousDayNormalizedTime(validPairs[i].prevDayEvent) <= threshold], 1)

analysePreviousDayImpact(days, eventType, scoreType, threshold) ==
  LET validPairs == ValidPairs(days, eventType, scoreType)
      earlyGroup == PreviousDayEarlyGroup(validPairs, threshold)
      lateGroup == Excluded(validPairs, earlyGroup)
      earlyScores == [k \in 1..Len(earlyGroup) |->
                        validPairs[earlyGroup[k]].nextDayScore]
      lateScores == [k \in 1..Len(lateGroup) |->
                       validPairs[lateGroup[k]].nextDayScore]
      times == [i \in 1..Len(validPairs) |->
                  HourNumber(validPairs[i].prevDayEvent)]
      scores == [i \in 1..Len(validPairs) |-> validPairs[i].nextDayScore]
  IN IF TooFew(Len(validPairs)) THEN InsufficientData(Len(validPairs))
     ELSE CompareCohorts(Len(validPairs), times, scores,
                         earlyScores, lateScores, "earlier", "later")

(***************************************************************************)
(* Inputs and actions of the analyzer specification                        *)
(***************************************************************************)
MaxSparseDays == 3
MaxDenseDays == 4

\* day records for days 1..Len(fields), fields[i] being the triple
\* <<asleep, work_end, mood_score>> of day i; with gap, day 1 is followed by
\* a day without a record
DaysOf(fields, gap) ==
  [i \in 1..Len(fields) |->
     [date |-> IF gap /\ i > 1 THEN i + 1 ELSE i,
      asleep |-> fields[i][1],
      work_end |-> fields[i][2],
      mood_score |-> fields[i][3],
      energy_score |-> Null]]

\* short series in which the sleep hour and the score may be missing; the
\* hours include a sleep hour below the pivot and another event's hour
\* above 24
SparseFields ==
  {Null, Num(Hours(1)), Num(Hours(23))} \X {Num(Hours(25))} \X {Null, Num(10)}

\* longer series with every field present: three bedtimes, the scores 0
\* and 10 and one day of score 9
DenseFields ==
  {<<Num(Hours(21)), Num(Hours(17)), Num(0)>>,
   <<Num(Hours(23)), Num(Hours(17)), Num(9)>>,
   <<Num(Hours(23)), Num(Hours(17)), Num(10)>>,
   <<Num(Hours(25)), Num(Hours(17)), Num(0)>>,
   <<Num(Hours(25)), Num(Hours(17)), Num(10)>>}

DenseSeries == [1..MaxDenseDays -> DenseFields]

\* <<the runtime's time zone, the day records>>: the short series in both
\* time zones, the longer ones in the time zone of the deployment
AnalyzerInputs ==
  (SysTimeZones
     \X {DaysOf(f, gap) : f \in SeqUpTo(SparseFields, MaxSparseDays),
                          gap \in BOOLEAN})
    \cup ({TIMEZONE} \X {DaysOf(f, FALSE) : f \in DenseSeries})

\* the calls made on the data: <<event type, threshold>>
EventScoreCalls == {<<"asleep", Hours(18 + 23)>>, <<"work_end", Hours(18 + 18)>>}
PreviousDayCalls == {<<"asleep", Hours(23)>>, <<"work_end", Hours(18 + 19)>>}
DurationThresholds == {Hours(6)}

\* the call made and the AnalyticsResult it returned
Returned(analyzer, eventType, threshold, value) ==
  [analyzer |-> analyzer, eventType |-> eventType, threshold |-> threshold,
   value |-> value]

AnalyseEventScore ==
  /\ pc = "input"
  /\ \E call \in EventScoreCalls :
       result' = Returned("analyseEventScoreRelationship", call[1], call[2],
         analyseEventScoreRelationship(data, call[1], "mood_score", call[2]))
  /\ pc' = "analysed"
  /\ UNCHANGED <<sysTz, events, journals, processed, merged, data>>
  /\ UNCHANGED dashboardVars

AnalyseDuration ==
  /\ pc = "input"
  /\ \E threshold \in DurationThresholds :
       result' = Returned("analyseDurationImpact", "work_end", threshold,
         analyseDurationImpact(data, "work_end", "asleep", "mood_score",
                               threshold))
  /\ pc' = "analysed"
  /\ UNCHANGED <<sysTz, events, journals, processed, merged, data>>
  /\ UNCHANGED dashboardVars

AnalyseSequential ==
  /\ pc = "input"
  /\ \E threshold \in DurationThresholds :
       result' = Returned("analyseSequentialEvents", "work_end", threshold,
         analyseSequentialEvents(data, "work_end", "asleep", "mood_score",
                                 threshold))
  /\ pc' = "analysed"
  /\ UNCHANGED <<sysTz, events, journals, processed, merged, data>>
  /\ UNCHANGED dashboardVars

AnalysePreviousDay ==
  /\ pc = "input"
  /\ \E call \in PreviousDayCalls :
       result' = Returned("analysePreviousDayImpact", call[1], call[2],
         analysePreviousDayImpact(data, call[1], "mood_score", call[2]))
  /\ pc' = "analysed"
  /\ UNCHANGED <<sysTz, events, journals, processed, merged, data>>
  /\ UNCHANGED dashboardVars

InitAn ==
  /\ \E input \in AnalyzerInputs : sysTz = input[1] /\ data = input[2]
  /\ events = << >>
  /\ journals = << >>
  /\ processed = << >>
  /\ merged = << >>
  /\ NoDashboard
  /\ result = NoResult
  /\ pc = "input"

NextAn ==
  \/ AnalyseEventScore
  \/ AnalyseDuration
  \/ AnalyseSequential
  \/ AnalysePreviousDay

SpecAn == InitAn /\ [][NextAn]_vars

(***************************************************************************)
(* The end-to-end scenario: five days of bedtimes at 11PM (three days) and *)
(* 1AM (two days), every early-sleep day scoring 2 points more than every  *)
(* late-sleep day, analysed with a threshold between the two bedtimes.     *)
(***************************************************************************)
ScenarioBedtimes ==
  {f \in [1..(3 + 2) -> {Hours(23), Hours(25)}] :
     Cardinality({i \in DOMAIN f : f[i] = Hours(23)}) = 3}

ScenarioLateScores == 0..(10 - 2)

ScenarioData ==
  {[i \in DOMAIN f |->
      [date |-> i,
       asleep |-> Num(f[i]),
       work_end |-> Null,
       mood_score |-> Num(IF f[i] = Hours(23) THEN late + 2 ELSE late),
       energy_score |-> Null]] :
     f \in ScenarioBedtimes, late \in ScenarioLateScores}

\* thresholds with 23 <= earlyThreshold - 18 < 25
ScenarioThresholds ==
  {Hours(DAY_PIVOT_HOUR + 23) + t : t \in 0..(Hours(2) - 1)}

AnalyseScenario ==
  /\ pc = "input"
  /\ \E threshold \in ScenarioThresholds :
       result' = Returned("analyseEventScoreRelationship", "asleep", threshold,
         analyseEventScoreRelationship(data, "asleep", "mood_score", threshold))
  /\ pc' = "analysed"
  /\ UNCHANGED <<sysTz, events, journals, processed, merged, data>>
  /\ UNCHANGED dashboardVars

InitScenario ==
  /\ sysTz = TIMEZONE
  /\ events = << >>
  /\ journals = << >>
  /\ processed = << >>
  /\ merged = << >>
  /\ NoDashboard
  /\ data \in ScenarioData
  /\ result = NoResult
  /\ pc = "input"

NextScenario == AnalyseScenario

SpecScenario == InitScenario /\ [][NextScenario]_vars

(***************************************************************************)
(* The statistics of two groups of scores, applied to every pair of short  *)
(* groups.                                                                 *)
(***************************************************************************)
MaxGroupSize == 3

GroupScores == {3, 7, 10}

Computed(op, value) == [op |-> op, value |-> value]

CalculatePValue ==
  /\ pc = "input"
  /\ result' = Computed("calculatePValue",
                        calculatePValue(data.group1, data.group2))
  /\ pc' = "computed"
  /\ UNCHANGED <<sysTz, events, journals, processed, merged, data>>
  /\ UNCHANGED dashboardVars

\* calculateEffectSize reduces each group without an initial value, which
\* throws on an empty group; its callers pass groups of two or more scores
CalculateEffectSize ==
  /\ pc = "input"
  /\ Len(data.group1) >= 2 /\ Len(data.group2) >= 2
  /\ result' = Computed("calculateEffectSize",
                        calculateEffectSize(data.group1, data.group2))
  /\ pc' = "computed"
  /\ UNCHANGED <<sysTz, events, journals, processed, merged, data>>
  /\ UNCHANGED dashboardVars

InitGroups ==
  /\ sysTz = TIMEZONE
  /\ events = << >>
  /\ journals = << >>
  /\ processed = << >>
  /\ merged = << >>
  /\ NoDashboard
  /\ data \in [group1 : SeqUpTo(GroupScores, MaxGroupSize),
                group2 : SeqUpTo(GroupScores, MaxGroupSize)]
  /\ result = NoResult
  /\ pc = "input"

NextGroups == CalculatePValue \/ CalculateEffectSize

SpecGroups == InitGroups /\ [][NextGroups]_vars

(***************************************************************************)
(* Properties of the analyzers                                             *)
(***************************************************************************)
Analysed == pc = "analysed"

IsDurationCall ==
  result.analyzer \in {"analyseDurationImpact", "analyseSequentialEvents"}

\* the normalized event hour of the event/score analyzer, as specified
SpecNormalizedHour(eventType, v) ==
  IF eventType = "asleep" /\ v < Hours(18) THEN v + Hours(24)
  ELSE IF eventType # "asleep" /\ v >= Hours(24) THEN v - Hours(24)
  ELSE v

\* end - start of day i, plus 24 hours when the end is before the start
SpecDuration(i) ==
  LET start == Value(data[i][result.eventType])
      end == Value(data[i].asleep)
  IN IF end < start THEN (end + Hours(24)) - start ELSE end - start

\* the record of the calendar day before day i, or 0
DayBefore(i) ==
  IF \E j \in 1..Len(data) : data[j].date = data[i].date - 1
  THEN CHOOSE j \in 1..Len(data) : data[j].date = data[i].date - 1
  ELSE 0

\* The valid observations of the call in result, as specified: the day each
\* comes from, whether it falls in the first (early/short) cohort, its score.
Observations ==
  IF result.analyzer = "analyseEventScoreRelationship"
  THEN {[day |-> i,
         first |-> SpecNormalizedHour(result.eventType,
                                      Value(data[i][result.eventType]))
                     <= result.threshold - Hours(18),
         score |-> Value(data[i].mood_score)] :
          i \in {i \in 1..Len(data) :
                   data[i][result.eventType] # Null /\ data[i].mood_score # Null}}
  ELSE IF IsDurationCall
  THEN {[day |-> i,
         first |-> SpecDuration(i) <= result.threshold,
         score |-> Value(data[i].mood_score)] :
          i \in {i \in 1..Len(data) :
                   /\ data[i][result.eventType] # Null
                   /\ data[i].asleep # Null
                   /\ data[i].mood_score # Null}}
  ELSE {[day |-> i,
         first |-> LET v == Value(data[DayBefore(i)][result.eventType])
                   IN (IF v < Hours(18) THEN v + Hours(24) ELSE v)
                        <= result.threshold,
         score |-> Value(data[i].mood_score)] :
          i \in {i \in 1..Len(data) :
                   /\ data[i].mood_score # Null
                   /\ DayBefore(i) # 0
                   /\ data[DayBefore(i)][result.eventType] # Null}}

FirstCohort == {o \in Observations : o.first}
SecondCohort == {o \in Observations : ~o.first}

RECURSIVE ScoreSum(_)
ScoreSum(obs) ==
  IF obs = {} THEN 0
  ELSE LET o == CHOOSE o \in obs : TRUE
       IN o.score + ScoreSum(obs \ {o})

CohortMean(obs) == Rat(ScoreSum(obs), Cardinality(obs))

NoStatistics(v) ==
  /\ v.pValue = Null
  /\ v.effectSize = Null
  /\ v.standardDev = Null

\* C1: with 0, 1 or 2 valid observations every analyzer returns
\* correlationStrength 'insufficient data', correlation 0, averageScore 0,
\* sampleSize equal to that count, and null pValue, effectSize, standardDev.
C1_InsufficientData ==
  Analysed /\ Cardinality(Observations) < 3 =>
    /\ result.value.correlationStrength = "insufficient data"
    /\ result.value.correlation = ZeroCorrelation
    /\ RatEqual(result.value.averageScore, Rat(0, 1))
    /\ result.value.sampleSize = Cardinality(Observations)
    /\ NoStatistics(result.value)

\* three days of data of which only two are valid, analysed
C1_Witness ==
  /\ Analysed
  /\ Len(data) = 3
  /\ Cardinality(Observations) = 2
  /\ result.value.correlationStrength = "insufficient data"

\* C2: with 3 or more valid observations and one cohort empty every
\* analyzer returns correlation 0, 'insufficient data', null statistics,
\* sampleSize equal to the valid count and the mean score of the cohort
\* that is not empty as averageScore.
C2_NeedMoreVariedData ==
  /\ Analysed
  /\ Cardinality(Observations) >= 3
  /\ FirstCohort = {} \/ SecondCohort = {}
  =>
    /\ result.value.correlation = ZeroCorrelation
    /\ result.value.correlationStrength = "insufficient data"
    /\ NoStatistics(result.value)
    /\ result.value.sampleSize = Cardinality(Observations)
    /\ RatEqual(result.value.averageScore, CohortMean(Observations))
    /\ result.value.insight.kind = "need more varied data"

\* three or more valid observations, all in one cohort, with a mean above 0
C2_Witness ==
  /\ Analysed
  /\ Cardinality(Observations) >= 3
  /\ FirstCohort = {} \/ SecondCohort = {}
  /\ ScoreSum(Observations) > 0
  /\ result.value.insight.kind = "need more varied data"

\* C8: in analyseEventScoreRelationship every valid day is in exactly one of
\* earlyDays and lateDays, it is in earlyDays exactly when its normalized
\* hour is <= earlyThreshold - 18, and |early| + |late| = sampleSize.
C8_EarlyLatePartition ==
  Analysed /\ result.analyzer = "analyseEventScoreRelationship" =>
    LET validData == ValidData(data, {result.eventType, "mood_score"})
        earlyDays == EventScoreEarlyDays(validData, result.eventType,
                                         result.threshold)
        lateDays == Excluded(validData, earlyDays)
    IN /\ \A i \in 1..Len(validData) :
            /\ (i \in Range(earlyDays)) # (i \in Range(lateDays))
            /\ i \in Range(earlyDays) <=>
                 SpecNormalizedHour(result.eventType,
                                    Value(validData[i][result.eventType]))
                   <= result.threshold - Hours(18)
       /\ Len(earlyDays) + Len(lateDays) = result.value.sampleSize
       /\ Cardinality(Range(earlyDays)) = Len(earlyDays)
       /\ Cardinality(Range(lateDays)) = Len(lateDays)

\* a sleep hour below the pivot among three valid days, analysed
C8_Witness ==
  /\ Analysed
  /\ result.analyzer = "analyseEventScoreRelationship"
  /\ result.eventType = "asleep"
  /\ result.value.sampleSize >= 3
  /\ FirstCohort # {} /\ SecondCohort # {}
  /\ \E i \in 1..Len(data) : data[i].asleep = Num(Hours(1))

\* C9: an insight that recommends 'earlier'/'shorter' is given only when
\* the early/short cohort has the strictly higher mean score, and one that
\* recommends 'later'/'longer' only when the late/long cohort has.
C9_RecommendsHigherAverage ==
  Analysed /\ result.value.insight.kind = "recommendation" =>
    /\ result.value.insight.better \in {"earlier", "shorter"} =>
         RatLess(CohortMean(SecondCohort), CohortMean(FirstCohort))
    /\ result.value.insight.better \in {"later", "longer"} =>
         RatLess(CohortMean(FirstCohort), CohortMean(SecondCohort))

\* the confidence phrase the first matching rule gives
SpecConfidence(pValue, effectSize) ==
  LET known == pValue # Null /\ effectSize # Null
      p == Value(pValue)
      d == Value(effectSize)
  IN IF known /\ PValueLess(p, 1, 100) /\ EffectSizeGreater(d, 8, 10)
     THEN "very strong evidence"
     ELSE IF known /\ PValueLess(p, 5, 100) /\ EffectSizeGreater(d, 5, 10)
     THEN "strong evidence"
     ELSE IF known /\ PValueLess(p, 1, 10) /\ EffectSizeGreater(d, 2, 10)
     THEN "some evidence"
     ELSE ""

C11_NoNaNOrInfinity ==
  Analysed /\ result.value.effectSize # Null =>
    Value(result.value.effectSize).kind = "finite"

\* the dates of the records whose score analysePreviousDayImpact can pair
\* with an event of the calendar day before, as specified
PairedDates ==
  {d \in {data[i].date : i \in 1..Len(data)} :
     \E i, j \in 1..Len(data) :
       /\ data[i].date = d
       /\ data[i].mood_score # Null
       /\ data[j].date = d - 1
       /\ data[j][result.eventType] # Null}

RecordOfDate(d) == data[CHOOSE i \in 1..Len(data) : data[i].date = d]

\* C13: analysePreviousDayImpact analyses exactly one pair for each date d
\* that has a numeric score and whose previous calendar day has a record
\* with a numeric eventType value; the pair holds day d-1's event value and
\* day d's score, and sampleSize is the number of such pairs.
C13_PreviousDayPairs ==
  Analysed /\ result.analyzer = "analysePreviousDayImpact" =>
    LET validPairs == ValidPairs(data, result.eventType, "mood_score")
    IN /\ result.value.sampleSize = Cardinality(PairedDates)
       /\ Len(validPairs) = Cardinality(PairedDates)
       /\ \A d \in PairedDates :
            LET k == 1 + Cardinality({e \in PairedDates : e < d})
            IN validPairs[k] =
                 [prevDayEvent |-> Value(RecordOfDate(d - 1)[result.eventType]),
                  nextDayScore |-> Value(RecordOfDate(d).mood_score)]

\* a series with a missing calendar day in which some days have a pair and
\* some have not, analysed in either runtime zone across the DST change
C13_Witness ==
  /\ Analysed
  /\ result.analyzer = "analysePreviousDayImpact"
  /\ sysTz = "UTC"
  /\ Len(data) = 3
  /\ data[2].date = 3
  /\ result.value.sampleSize = 1
  /\ PairedDates = {4}

\* C14: in analyseDurationImpact each valid day has duration end - start,
\* plus 24 hours when end < start; it is in the short cohort exactly when
\* duration <= durationThreshold and in the long cohort otherwise, so the
\* cohorts are disjoint and together hold every valid day.
C14_DurationPartition ==
  Analysed /\ result.analyzer = "analyseDurationImpact" =>
    LET validData == ValidData(data, {result.eventType, "asleep", "mood_score"})
        durations == WithDurations(validData, result.eventType, "asleep",
                                   "mood_score")
        short == ShortDuration(durations, result.threshold)
        long == LongDuration(durations, result.threshold)
        Span(d) == IF Value(d.asleep) < Value(d[result.eventType])
                   THEN (Value(d.asleep) + Hours(24)) - Value(d[result.eventType])
                   ELSE Value(d.asleep) - Value(d[result.eventType])
        isShort == [i \in 1..Len(validData) |->
                      Span(validData[i]) <= result.threshold]
        Picked(want) ==
          LET at == FilterIndices([i \in 1..Len(validData) |-> isShort[i] = want], 1)
          IN [k \in 1..Len(at) |->
                [duration |-> Span(validData[at[k]]),
                 score |-> Value(validData[at[k]].mood_score)]]
    IN /\ short = Picked(TRUE)
       /\ long = Picked(FALSE)
       /\ Len(short) + Len(long) = Len(validData)
       /\ result.value.sampleSize = Len(validData)

\* a day whose duration equals the threshold in the short cohort, beside a
\* longer day
C14_Witness ==
  /\ Analysed
  /\ result.analyzer = "analyseDurationImpact"
  /\ result.value.sampleSize >= 3
  /\ \E i \in 1..Len(data) :
       /\ data[i].asleep # Null /\ data[i].work_end # Null
       /\ Value(data[i].asleep) - Value(data[i].work_end) = result.threshold
  /\ FirstCohort # {} /\ SecondCohort # {}

\* C20: analyseEventScoreRelationship correlates the score with the same
\* fold-normalized hour that decides the early/late partition, so a day
\* classified early never has a larger correlation time than a day
\* classified late.
C20_CorrelationUsesFoldedHour ==
  /\ Analysed
  /\ result.analyzer = "analyseEventScoreRelationship"
  /\ result.value.correlationStrength # "insufficient data"
  =>
    LET validData == ValidData(data, {result.eventType, "mood_score"})
        Hour(i) == Value(validData[i][result.eventType])
        early == {i \in 1..Len(validData) :
                    SpecNormalizedHour(result.eventType, Hour(i))
                      <= result.threshold - Hours(18)}
    IN /\ \A i \in 1..Len(validData) :
            EventScoreCorrelationTime(Hour(i))
              = HourNumber(SpecNormalizedHour(result.eventType, Hour(i)))
       /\ \A i \in early : \A j \in (1..Len(validData)) \ early :
            ~Less(EventScoreCorrelationTime(Hour(j)),
                  EventScoreCorrelationTime(Hour(i)))

\* the score of the late-sleep days of the scenario
ScenarioLateScore ==
  Value(data[CHOOSE i \in 1..Len(data) : data[i].asleep = Num(Hours(25))].mood_score)

\* C15: in the end-to-end scenario analyseEventScoreRelationship returns
\* sampleSize 5, a correlationStrength of 'moderate', 'strong' or 'very
\* strong', and an insight that says 'earlier' and gives both cohort averages.
C15_EndToEndScenario ==
  Analysed =>
    /\ result.value.sampleSize = 5
    /\ result.value.correlationStrength \in {"moderate", "strong", "very strong"}
    /\ result.value.insight.kind = "recommendation"
    /\ result.value.insight.better = "earlier"
    /\ result.value.insight.betterAvg # Null
    /\ result.value.insight.worseAvg # Null
    /\ RatEqual(Value(result.value.insight.betterAvg),
                Rat(ScenarioLateScore + 2, 1))
    /\ RatEqual(Value(result.value.insight.worseAvg), Rat(ScenarioLateScore, 1))

\* the scenario with a late-sleep day first, analysed with the largest
\* threshold that still separates the bedtimes
C15_Witness ==
  /\ Analysed
  /\ Len(data) = 5
  /\ data[1].asleep = Num(Hours(25))
  /\ result.threshold = Hours(DAY_PIVOT_HOUR + 25) - 1
  /\ result.value.insight.better = "earlier"

(***************************************************************************)
(* Properties of the statistics                                            *)
(***************************************************************************)
\* a group of two or more scores that are all the same
ConstantGroup(group) ==
  Len(group) >= 2 /\ Cardinality({group[i] : i \in 1..Len(group)}) = 1

\* C12: for two groups of at least 2 scores, each internally constant,
\* calculatePValue returns 1 when the two constants are equal and 0.0001
\* when they differ, not the value of the t-test or of the mean-difference
\* fallback.
C12_ConstantGroupsPValue ==
  /\ pc = "computed"
  /\ result.op = "calculatePValue"
  /\ ConstantGroup(data.group1)
  /\ ConstantGroup(data.group2)
  =>
    IF data.group1[1] = data.group2[1]
    THEN RatEqual(result.value, Rat(1, 1))
    ELSE RatEqual(result.value, Rat(1, 10000))

\* the p-value of the cohorts [7, 7, 7] and [3, 3, 3]
C12_Witness ==
  /\ pc = "computed"
  /\ result.op = "calculatePValue"
  /\ data.group1 = <<7, 7, 7>>
  /\ data.group2 = <<3, 3, 3>>
  /\ RatEqual(result.value, Rat(1, 10000))

(***************************************************************************)
(* calculateCorrelation on its own: two series of the same length whose    *)
(* values are whole numbers and an hour with minutes (00:03 is 0.05).      *)
(***************************************************************************)
MaxSeriesLen == 3

SeriesValues == {HourNumber(3), FromInteger(7), FromInteger(10)}

\* the pairs of series of n values
SeriesPairs(n) == [x : [1..n -> SeriesValues], y : [1..n -> SeriesValues]]

CalculateCorrelation ==
  /\ pc = "input"
  /\ result' = Computed("calculateCorrelation",
                        calculateCorrelation(data.x, data.y))
  /\ pc' = "computed"
  /\ UNCHANGED <<sysTz, events, journals, processed, merged, data>>
  /\ UNCHANGED dashboardVars

InitCorrelation ==
  /\ sysTz = TIMEZONE
  /\ events = << >>
  /\ journals = << >>
  /\ processed = << >>
  /\ merged = << >>
  /\ NoDashboard
  /\ \E n \in 0..MaxSeriesLen : data \in SeriesPairs(n)
  /\ result = NoResult
  /\ pc = "input"

NextCorrelation == CalculateCorrelation

SpecCorrelation == InitCorrelation /\ [][NextCorrelation]_vars

(***************************************************************************)
(* Properties of calculateCorrelation                                      *)
(***************************************************************************)
Correlated == pc = "computed" /\ result.op = "calculateCorrelation"

\* every value of the series is the same
ConstantSeries(s) == Cardinality({s[i] : i \in 1..Len(s)}) <= 1

\* C16: calculateCorrelation returns exactly 0 whenever the series have
\* fewer than 2 points or either series is constant, whatever the values
\* of the other series.
C16_ZeroForConstantSeries ==
  /\ Correlated
  /\ Len(data.x) < 2 \/ ConstantSeries(data.x) \/ ConstantSeries(data.y)
  =>
    result.value = Zero

\* C17: for two series of the same length, calculateCorrelation(x, y) lies
\* in [-1, 1] and equals calculateCorrelation(y, x).
C17_BoundedAndSymmetric ==
  Correlated =>
    /\ ~Less(One, result.value)
    /\ ~Less(result.value, Negate(One))
    /\ result.value = calculateCorrelation(data.y, data.x)

\* a correlation strictly between 0 and 1 of three points in two different
\* series
C17_Witness ==
  /\ Correlated
  /\ Len(data.x) = MaxSeriesLen
  /\ data.x # data.y
  /\ result.value.m > 0
  /\ Less(result.value, One)

(***************************************************************************)
(* The clock display: normalizeHour of an instant, then formatTimeToAMPM   *)
(* of the hour value.  An hour value is held in ticks, its whole part is   *)
(* ticks \div TicksPerHour and its fraction times 60 is ticks % TicksPerHour*)
(* minutes (the rounding of the code recovers the minute exactly).         *)
(***************************************************************************)
MaxClockDays == 2

\* every minute of the first MaxClockDays days (UTC) of the model calendar
ClockInstants == 0..((MaxClockDays * TicksPerDay) - 1)

normalizeHour(dateStr) ==
  LET melbourneDate == toZonedTime(dateStr, TIMEZONE)
      hour == getHours(melbourneDate)
      minutes == getMinutes(melbourneDate)
  IN IF hour < DAY_PIVOT_HOUR
     THEN Hours(hour + HOURS_IN_DAY) + minutes
     ELSE Hours(hour) + minutes

\* padStart that leaves the text as it is
padStartOmitted(text, targetLength, padString) == text

\* String.prototype.padStart with a pad of one character
RECURSIVE padStart(_, _, _)
padStart(text, targetLength, padString) ==
  IF Len(text) < targetLength
  THEN padStart(padString \o text, targetLength, padString)
  ELSE text

\* the template literal of formatTimeToAMPM
TimeText(adjustedHours, minutePart, ampm) ==
  ToString(adjustedHours) \o ":" \o padStart(ToString(minutePart), 2, "0")
    \o " " \o ampm

\* formatTimeToAMPM from wholePart on
TimeTextOfParts(wholePart, minutePart) ==
  TimeText(IF wholePart % 12 = 0 THEN 12 ELSE wholePart % 12, minutePart,
           IF wholePart < 12 THEN "AM" ELSE "PM")

\* formatTimeToAMPM from normalizedHours on
TimeTextOfHours(normalizedHours) ==
  TimeTextOfParts(normalizedHours \div TicksPerHour,
                  (normalizedHours % TicksPerHour) * TickMinutes)

formatTimeToAMPM(hours) ==
  IF hours = Null THEN "-"
  ELSE TimeTextOfHours(IF Value(hours) >= Hours(HOURS_IN_DAY)
                       THEN Value(hours) - Hours(HOURS_IN_DAY)
                       ELSE Value(hours))

NormalizeHour ==
  /\ pc = "input"
  /\ result' = Computed("normalizeHour", normalizeHour(data))
  /\ pc' = "normalized"
  /\ UNCHANGED <<sysTz, events, journals, processed, merged, data>>
  /\ UNCHANGED dashboardVars

FormatTimeToAMPM ==
  /\ pc = "normalized"
  /\ result' = Computed("formatTimeToAMPM", formatTimeToAMPM(Num(result.value)))
  /\ pc' = "formatted"
  /\ UNCHANGED <<sysTz, events, journals, processed, merged, data>>
  /\ UNCHANGED dashboardVars

InitClock ==
  /\ sysTz \in SysTimeZones
  /\ events = << >>
  /\ journals = << >>
  /\ processed = << >>
  /\ merged = << >>
  /\ NoDashboard
  /\ data \in ClockInstants
  /\ result = NoResult
  /\ pc = "input"

NextClock == NormalizeHour \/ FormatTimeToAMPM

SpecClock == InitClock /\ [][NextClock]_vars

(***************************************************************************)
(* Properties of the clock display                                         *)
(***************************************************************************)
DecimalDigit(d) == <<"0", "1", "2", "3", "4", "5", "6", "7", "8", "9">>[d + 1]

TwoDigits(n) == DecimalDigit(n \div 10) \o DecimalDigit(n % 10)

\* the 12-hour clock display of hour:minute of the 24-hour clock
ClockDisplay(hour, minute) ==
  LET hour12 == IF hour % 12 = 0 THEN 12 ELSE hour % 12
  IN (IF hour12 < 10 THEN DecimalDigit(hour12) ELSE TwoDigits(hour12))
       \o ":" \o TwoDigits(minute) \o " "
       \o (IF hour < 12 THEN "AM" ELSE "PM")

\* C18: for every instant t at whole-minute resolution,
\* formatTimeToAMPM(normalizeHour(t)) is the 12-hour display of t's wall
\* clock in the reference time zone with zero-padded minutes: 00:00 is
\* "12:00 AM", 12:00 is "12:00 PM", and 01:30 is folded to 25.5 and
\* displayed as "1:30 AM".
C18_ClockDisplayRoundTrip ==
  LET hour == LocalHour(data)
      minute == LocalMinute(data) * TickMinutes
  IN /\ pc = "formatted" =>
          /\ result.value = ClockDisplay(hour, minute)
          /\ hour = 0 /\ minute = 0 => result.value = "12:00 AM"
          /\ hour = 12 /\ minute = 0 => result.value = "12:00 PM"
          /\ hour = 1 /\ minute = 30 => result.value = "1:30 AM"
     /\ pc = "normalized" /\ hour = 1 /\ minute = 30 =>
          result.value = Hours(25) + 30

\* 01:30 of the reference time zone displayed, in a runtime of another zone
C18_Witness ==
  /\ pc = "formatted"
  /\ sysTz = "UTC"
  /\ LocalHour(data) = 1
  /\ LocalMinute(data) * TickMinutes = 30
  /\ result.value = "1:30 AM"

(***************************************************************************)
(* Sleep records.  A row of the sleep export holds its numbers as text, a  *)
(* text being the sequence of its characters; a JavaScript number is       *)
(* finite (the exact decimal num / den) or NaN.                            *)
(***************************************************************************)
MaxSleepRows == 2

Finite(num, den) == [kind |-> "finite", num |-> num, den |-> den]
NaN == [kind |-> "NaN", num |-> 0, den |-> 1]

DigitCharacters == <<"0", "1", "2", "3", "4", "5", "6", "7", "8", "9">>

IsDigit(c) == \E d \in 1..10 : DigitCharacters[d] = c

DigitValue(c) == (CHOOSE d \in 1..10 : DigitCharacters[d] = c) - 1

\* the first position from i on that does not hold white space
RECURSIVE SkipWhiteSpace(_, _)
SkipWhiteSpace(text, i) ==
  IF i <= Len(text) /\ text[i] = " " THEN SkipWhiteSpace(text, i + 1) ELSE i

\* the digits from position i on: the number num / den read so far (den
\* grows with every digit when scale is 10, as after the decimal point) and
\* the position after the last digit
RECURSIVE ReadDigits(_, _, _, _, _)
ReadDigits(text, i, num, den, scale) ==
  IF i <= Len(text) /\ IsDigit(text[i])
  THEN ReadDigits(text, i + 1, (num * 10) + DigitValue(text[i]), den * scale,
                  scale)
  ELSE [num |-> num, den |-> den, next |-> i]

\* parseFloat from the end of the integer digits on: whole is what
\* ReadDigits found from position start
ParsedFraction(text, start, whole) ==
  IF whole.next <= Len(text) /\ text[whole.next] = "."
  THEN ReadDigits(text, whole.next + 1, whole.num, 1, 10)
  ELSE whole

\* the number read from position start, NaN when no digit was read
ParsedNumber(text, start, whole, all) ==
  IF whole.next = start /\ all.next <= whole.next + 1 THEN NaN
  ELSE Finite(all.num, all.den)

ParsedFrom(text, start, whole) ==
  ParsedNumber(text, start, whole, ParsedFraction(text, start, whole))

ParsedAt(text, start) == ParsedFrom(text, start, ReadDigits(text, start, 0, 1, 1))

\* parseFloat(string) for texts of digits, '.', white space and other
\* characters (no sign, no exponent); a property that is missing reads as
\* the text 'undefined'
parseFloat(string) ==
  IF string = Null THEN NaN
  ELSE ParsedAt(Value(string), SkipWhiteSpace(Value(string), 1))

\* one entry of processSleepData's map
SleepEntry(entry) ==
  [date |-> formatInTimeZone(toZonedTime(entry.DateTime, TIMEZONE), TIMEZONE),
   asleep |-> normalizeHour(entry.Start),
   awake |-> normalizeHour(entry.End),
   duration |-> parseFloat(entry.InBed),
   core |-> parseFloat(entry.Core),
   rem |-> parseFloat(entry.REM),
   deep |-> parseFloat(entry.Deep)]

processSleepData(sleepData) ==
  SortByDate([i \in 1..Len(sleepData) |-> SleepEntry(sleepData[i])])

\* typeof of a number of the model
TypeOf(v) == IF v.kind \in {"finite", "NaN"} THEN "number" ELSE "object"

\* a + b
AddNumbers(a, b) ==
  IF a.kind = "NaN" \/ b.kind = "NaN" THEN NaN
  ELSE Finite((a.num * b.den) + (b.num * a.den), a.den * b.den)

\* validDurations.reduce((sum, duration) => sum + duration, 0)
RECURSIVE SumOfNumbersFrom(_, _, _)
SumOfNumbersFrom(s, acc, i) ==
  IF i > Len(s) THEN acc
  ELSE SumOfNumbersFrom(s, AddNumbers(acc, s[i]), i + 1)

\* a / n for a count n > 0
DivideByCount(a, n) == IF a.kind = "NaN" THEN NaN ELSE Finite(a.num, a.den * n)

\* data.filter(d => d.duration !== null && typeof d.duration === 'number')
\*     .map(d => d.duration)
ValidDurations(sleep) ==
  SelectSeq([i \in 1..Len(sleep) |-> sleep[i].duration],
            LAMBDA d : d # Null /\ TypeOf(d) = "number")

\* calculateAverageDuration from validDurations on
AverageOf(validDurations) ==
  IF Len(validDurations) = 0 THEN Null
  ELSE Num(DivideByCount(SumOfNumbersFrom(validDurations, Finite(0, 1), 1),
                         Len(validDurations)))

calculateAverageDuration(sleep) == AverageOf(ValidDurations(sleep))

\* the texts of the 'In Bed (hr)' column: "7", "8.5", "n/a", "" and a row
\* without the column
InBedTexts ==
  {Num(<<"7">>), Num(<<"8", ".", "5">>), Num(<<"n", "/", "a">>), Num(<< >>),
   Null}

\* rows of the nights of model days 0 and 1: in bed from 23:00 to 07:00
RawSleepData ==
  {[DateTime |-> At(d, 23, 0), Start |-> At(d, 23, 0), End |-> At(d + 1, 7, 0),
    InBed |-> t, Core |-> Num(<<"4">>), REM |-> Num(<<"1", ".", "5">>),
    Deep |-> Num(<<"1">>)] : d \in 0..1, t \in InBedTexts}

ProcessSleepData ==
  /\ pc = "input"
  /\ processed' = processSleepData(data)
  /\ pc' = "processed"
  /\ UNCHANGED <<sysTz, events, journals, merged, data, result>>
  /\ UNCHANGED dashboardVars

CalculateAverageDuration ==
  /\ pc = "processed"
  /\ result' = Computed("calculateAverageDuration",
                        calculateAverageDuration(processed))
  /\ pc' = "computed"
  /\ UNCHANGED <<sysTz, events, journals, processed, merged, data>>
  /\ UNCHANGED dashboardVars

InitSleep ==
  /\ sysTz \in SysTimeZones
  /\ events = << >>
  /\ journals = << >>
  /\ processed = << >>
  /\ merged = << >>
  /\ NoDashboard
  /\ data \in SeqUpTo(RawSleepData, MaxSleepRows)
  /\ result = NoResult
  /\ pc = "input"

NextSleep == ProcessSleepData \/ CalculateAverageDuration

SpecSleep == InitSleep /\ [][NextSleep]_vars

(***************************************************************************)
(* Properties of the sleep records                                         *)
(***************************************************************************)
\* the durations of the processed records that are usable numbers
UsableDurations ==
  SelectSeq([i \in 1..Len(processed) |-> processed[i].duration],
            LAMBDA d : d.kind = "finite")

RECURSIVE RatSumFrom(_, _)
RatSumFrom(s, i) ==
  IF i > Len(s) THEN Rat(0, 1)
  ELSE Rat((s[i].num * RatSumFrom(s, i + 1).den)
             + (RatSumFrom(s, i + 1).num * s[i].den),
           s[i].den * RatSumFrom(s, i + 1).den)

\* C19: calculateAverageDuration returns the mean of the durations that are
\* usable numbers, ignoring records whose duration is missing or was read
\* from an unparsable text, and null when no record has a usable duration;
\* a malformed row never makes the average NaN.
C19_AverageIgnoresMalformed ==
  pc = "computed" =>
    IF UsableDurations = << >> THEN result.value = Null
    ELSE /\ result.value # Null
         /\ Value(result.value).kind = "finite"
         /\ RatEqual(Value(result.value),
                     Rat(RatSumFrom(UsableDurations, 1).num,
                         RatSumFrom(UsableDurations, 1).den
                           * Len(UsableDurations)))

(***************************************************************************)
(* Properties of the statistics fields of a full result                    *)
(***************************************************************************)
\* a result past both early returns: three or more valid observations and
\* neither cohort empty
FullResult ==
  /\ Analysed
  /\ Cardinality(Observations) >= 3
  /\ FirstCohort # {} /\ SecondCohort # {}

RECURSIVE ScoreSquares(_)
ScoreSquares(obs) ==
  IF obs = {} THEN 0
  ELSE LET o == CHOOSE o \in obs : TRUE
       IN (o.score * o.score) + ScoreSquares(obs \ {o})

BothCohortsComparable ==
  Cardinality(FirstCohort) >= 2 /\ Cardinality(SecondCohort) >= 2

\* C21 (as claimed): in a full result, when either cohort has fewer than 2
\* scores the p-value, the effect size and the standard deviation are all
\* null.
C21_StatisticsNeedBothCohorts ==
  FullResult /\ ~BothCohortsComparable => NoStatistics(result.value)

\* C21 (amended): in a full result the p-value and the effect size are
\* computed exactly when each cohort has at least 2 scores and are both null
\* otherwise; the standard deviation is that of all valid scores together
\* and is never null.
C21_CohortStatisticsOnly ==
  FullResult =>
    LET n == Cardinality(Observations)
        total == ScoreSum(Observations)
    IN /\ (result.value.pValue # Null) <=> BothCohortsComparable
       /\ (result.value.effectSize # Null) <=> BothCohortsComparable
       /\ result.value.standardDev # Null
       /\ RatEqual(Value(result.value.standardDev),
                   Rat((n * ScoreSquares(Observations)) - (total * total), n * n))

\* a full result with a cohort of one score and scores that differ
C21_Witness ==
  /\ FullResult
  /\ Cardinality(FirstCohort) = 1
  /\ result.value.pValue = Null
  /\ result.value.standardDev # Null
  /\ Value(result.value.standardDev).num > 0

\* every field of an AnalyticsResult but the insight text
NumericFields(v) ==
  <<v.correlation, v.correlationStrength, v.averageScore, v.sampleSize,
    v.pValue, v.effectSize, v.standardDev>>

\* C22: analyseSequentialEvents(days, a, b, score, t) and
\* analyseDurationImpact(days, a, b, score, t) return the same correlation,
\* correlationStrength, averageScore, sampleSize, pValue, effectSize and
\* standardDev, for every input.
C22_SequentialEqualsDuration ==
  /\ Analysed /\ result.analyzer = "analyseSequentialEvents" =>
       NumericFields(result.value) =
         NumericFields(analyseDurationImpact(data, result.eventType, "asleep",
                                             "mood_score", result.threshold))
  /\ Analysed /\ result.analyzer = "analyseDurationImpact" =>
       NumericFields(result.value) =
         NumericFields(analyseSequentialEvents(data, result.eventType, "asleep",
                                               "mood_score", result.threshold))

\* a full result of analyseSequentialEvents with a gap equal to the
\* threshold, both cohorts compared
C22_Witness ==
  /\ FullResult
  /\ result.analyzer = "analyseSequentialEvents"
  /\ BothCohortsComparable
  /\ result.value.correlation # ZeroCorrelation
  /\ \E i \in 1..Len(data) :
       Value(data[i].asleep) - Value(data[i].work_end) = result.threshold

\* C23: in analysePreviousDayImpact a pair is in the early group exactly
\* when the previous day's event happened at or before the clock time the
\* insight names, formatTimeToAMPM(threshold - 18): the normalized hour of
\* the event is compared with threshold - 18, as in
\* analyseEventScoreRelationship.
C23_SplitAtNamedTime ==
  /\ Analysed
  /\ result.analyzer = "analysePreviousDayImpact"
  /\ result.value.sampleSize >= 3
  =>
    LET validPairs == ValidPairs(data, result.eventType, "mood_score")
        earlyGroup == PreviousDayEarlyGroup(validPairs, result.threshold)
    IN \A i \in 1..Len(validPairs) :
         i \in Range(earlyGroup) <=>
           SpecNormalizedHour(result.eventType, validPairs[i].prevDayEvent)
             <= result.threshold - Hours(18)

(***************************************************************************)
(* The spans of analyseDurationImpact and analyseSequentialEvents, over    *)
(* one valid day holding any hours processEventData can store: a sleep     *)
(* hour in [18, 42) and another event's hour in [0, 24).                   *)
(***************************************************************************)
StoredSleepHours ==
  {Hours(h) : h \in DAY_PIVOT_HOUR..((DAY_PIVOT_HOUR + HOURS_IN_DAY) - 1)}

StoredEventHours == {Hours(h) : h \in 0..(HOURS_IN_DAY - 1)}

\* the start and end event types of a call
SpanCalls == {<<"work_end", "asleep">>, <<"asleep", "work_end">>}

DurationsOfDays ==
  /\ pc = "input"
  /\ \E call \in SpanCalls :
       result' = Computed("analyseDurationImpact",
         [startEventType |-> call[1],
          spans |-> WithDurations(ValidData(data, {call[1], call[2], "mood_score"}),
                                  call[1], call[2], "mood_score")])
  /\ pc' = "computed"
  /\ UNCHANGED <<sysTz, events, journals, processed, merged, data>>
  /\ UNCHANGED dashboardVars

GapsOfDays ==
  /\ pc = "input"
  /\ \E call \in SpanCalls :
       result' = Computed("analyseSequentialEvents",
         [startEventType |-> call[1],
          spans |-> WithDurations(ValidData(data, {call[1], call[2], "mood_score"}),
                                  call[1], call[2], "mood_score")])
  /\ pc' = "computed"
  /\ UNCHANGED <<sysTz, events, journals, processed, merged, data>>
  /\ UNCHANGED dashboardVars

InitSpan ==
  /\ sysTz = TIMEZONE
  /\ events = << >>
  /\ journals = << >>
  /\ processed = << >>
  /\ merged = << >>
  /\ NoDashboard
  /\ \E asleep \in StoredSleepHours, other \in StoredEventHours :
       data = DaysOf(<<<<Num(asleep), Num(other), Num(10)>>>>, FALSE)
  /\ result = NoResult
  /\ pc = "input"

NextSpan == DurationsOfDays \/ GapsOfDays

SpecSpan == InitSpan /\ [][NextSpan]_vars

\* C26: for a valid day whose start and end hours are ones processEventData
\* can store, the duration of analyseDurationImpact and the gap of
\* analyseSequentialEvents are at least 0 and below 24 hours.
C26_SpanWithinADay ==
  pc = "computed" =>
    \A i \in 1..Len(result.value.spans) :
      /\ result.value.spans[i].duration >= 0
      /\ result.value.spans[i].duration < Hours(24)

(***************************************************************************)
(* Average event times and their display.  An average of whole-minute      *)
(* times is a fraction of a minute: the exact ratio num / den of ticks.    *)
(***************************************************************************)
MaxAverageDays == 3

\* the event hours of a day: two minutes on either side of 8 AM and of
\* midnight, a sleep hour below the pivot and one stored above 24
AverageHours ==
  {Null, Num(Hours(1)), Num(Hours(8) - 1), Num(Hours(8)), Num(Hours(24) - 1),
   Num(Hours(25))}

AverageCalls == {"asleep", "work_end"}

\* validTimes of calculateAverageTime
ValidTimes(validData, eventType) ==
  [i \in 1..Len(validData) |->
     IF eventType = "asleep" /\ Value(validData[i][eventType]) < Hours(DAY_PIVOT_HOUR)
     THEN Value(validData[i][eventType]) + Hours(HOURS_IN_DAY)
     ELSE Value(validData[i][eventType])]

\* validTimes.reduce((sum, time) => sum + time, 0) / validTimes.length
AverageTimeOf(validTimes) ==
  IF Len(validTimes) = 0 THEN Null
  ELSE Num(Rat(Sum(validTimes), Len(validTimes)))

calculateAverageTime(days, eventType) ==
  AverageTimeOf(ValidTimes(ValidData(days, {eventType}), eventType))

\* formatTimeToAMPM from normalizedHours on, for num / den ticks: Math.floor
\* for the hour, Math.round (to the nearest integer, halves upwards) for
\* the minutes
TimeTextOfRatio(num, den) ==
  TimeTextOfParts(num \div (TicksPerHour * den),
                  ((2 * TickMinutes * (num % (TicksPerHour * den))) + den)
                    \div (2 * den))

\* formatTimeToAMPM(hours) of a fractional number of hours
formatTimeToAMPMOfRatio(hours) ==
  IF hours = Null THEN "-"
  ELSE TimeTextOfRatio(
         IF Value(hours).num >= Hours(HOURS_IN_DAY) * Value(hours).den
         THEN Value(hours).num - (Hours(HOURS_IN_DAY) * Value(hours).den)
         ELSE Value(hours).num,
         Value(hours).den)

CalculateAverageTime ==
  /\ pc = "input"
  /\ \E eventType \in AverageCalls :
       result' = Computed("calculateAverageTime",
                          calculateAverageTime(data, eventType))
  /\ pc' = "averaged"
  /\ UNCHANGED <<sysTz, events, journals, processed, merged, data>>
  /\ UNCHANGED dashboardVars

\* acc[eventType] = avgTime !== null ? formatTimeToAMPM(avgTime) : '-'
FormatAverageTime ==
  /\ pc = "averaged"
  /\ result' = Computed("formatTimeToAMPM",
                        [hours |-> result.value,
                         text |-> formatTimeToAMPMOfRatio(result.value)])
  /\ pc' = "formatted"
  /\ UNCHANGED <<sysTz, events, journals, processed, merged, data>>
  /\ UNCHANGED dashboardVars

InitAverage ==
  /\ sysTz = TIMEZONE
  /\ events = << >>
  /\ journals = << >>
  /\ processed = << >>
  /\ merged = << >>
  /\ NoDashboard
  /\ \E hours \in SeqUpTo(AverageHours, MaxAverageDays) :
       data = DaysOf([i \in 1..Len(hours) |-> <<hours[i], hours[i], Null>>], FALSE)
  /\ result = NoResult
  /\ pc = "input"

NextAverage == CalculateAverageTime \/ FormatAverageTime

SpecAverage == InitAverage /\ [][NextAverage]_vars

\* the distance on the 24-hour clock face between minute-of-day clock and
\* num / den ticks, is at most one minute
WithinOneMinute(clock, num, den) ==
  LET day == TicksPerDay * TickMinutes * den
      d == Abs((clock * den) - ((num * TickMinutes) % day))
  IN d <= den \/ day - d <= den

\* C25: for every hour value h in [0, 48), fractional averages of
\* calculateAverageTime included, formatTimeToAMPM(h) shows an hour of 1..12
\* and a two-digit minute of 00..59, and the time shown is within one minute
\* of h modulo 24.
C25_AverageTimeDisplay ==
  pc = "formatted" /\ result.value.hours # Null =>
    \E hour \in 0..23, minute \in 0..59 :
      /\ result.value.text = ClockDisplay(hour, minute)
      /\ WithinOneMinute((hour * 60) + minute,
                         Value(result.value.hours).num,
                         Value(result.value.hours).den)

(***************************************************************************)
(* The insight card: an analyzer result rendered with its direction badge. *)
(***************************************************************************)
MaxCardDays == 4

\* <<asleep, work_end, mood_score>> of a day: a bedtime on either side of
\* midnight and a low or a high score
CardFields ==
  {Num(Hours(23)), Num(Hours(25))} \X {Num(Hours(17))} \X {Num(0), Num(10)}

\* the span of the card title: absent, or the text it shows
DirectionBadge(cardResult) ==
  IF cardResult.correlationStrength # "negligible"
  THEN Num(IF Less(Zero, cardResult.correlation)
           THEN "Earlier is better"
           ELSE "Later is better")
  ELSE Null

\* InsightsCard({title, result}) rendered for the result of the last call
RenderInsightsCard ==
  /\ pc = "analysed"
  /\ result' = [analyzer |-> result.analyzer,
                eventType |-> result.eventType,
                threshold |-> result.threshold,
                value |-> result.value,
                badge |-> DirectionBadge(result.value)]
  /\ pc' = "rendered"
  /\ UNCHANGED <<sysTz, events, journals, processed, merged, data>>
  /\ UNCHANGED dashboardVars

InitCard ==
  /\ sysTz = TIMEZONE
  /\ events = << >>
  /\ journals = << >>
  /\ processed = << >>
  /\ merged = << >>
  /\ NoDashboard
  /\ \E fields \in SeqUpTo(CardFields, MaxCardDays) : data = DaysOf(fields, FALSE)
  /\ result = NoResult
  /\ pc = "input"

NextCard ==
  \/ AnalyseEventScore
  \/ AnalysePreviousDay
  \/ RenderInsightsCard

SpecCard == InitCard /\ [][NextCard]_vars

\* C24: on an insight card 'Earlier is better' is shown only when the
\* insight recommends 'earlier', 'Later is better' only when it recommends
\* 'later', and no badge is shown for the insufficient-data and the
\* no-relationship results.
C24_BadgeAgreesWithInsight ==
  pc = "rendered" =>
    /\ result.badge = Num("Earlier is better") =>
         /\ result.value.insight.kind = "recommendation"
         /\ result.value.insight.better = "earlier"
    /\ result.badge = Num("Later is better") =>
         /\ result.value.insight.kind = "recommendation"
         /\ result.value.insight.better = "later"
    /\ result.value.insight.kind # "recommendation" => result.badge = Null

(***************************************************************************)
(* Location logs and the daily time outside.  timeOutside is held in ticks *)
(* while it is accumulated and in hundredths of an hour once toFixed(2)    *)
(* has rounded it.                                                         *)
(***************************************************************************)
MaxLocationLogs == 3

\* an evening, the hour before midnight, and two times of the next day
LocationInstants == {At(1, 20, 0), At(1, 23, 0), At(2, 1, 0), At(2, 9, 20)}

LocationLog == [created_at : LocationInstants, location : {"home", "not_home"}]

\* [...locationLogs].sort((a, b) => time of a - time of b), a stable sort
RECURSIVE InsertByTime(_, _)
InsertByTime(sorted, log) ==
  IF sorted = << >> THEN <<log>>
  ELSE IF log.created_at < Head(sorted).created_at THEN <<log>> \o sorted
  ELSE <<Head(sorted)>> \o InsertByTime(Tail(sorted), log)

RECURSIVE SortByTimeFrom(_, _, _)
SortByTimeFrom(sorted, logs, i) ==
  IF i > Len(logs) THEN sorted
  ELSE SortByTimeFrom(InsertByTime(sorted, logs[i]), logs, i + 1)

SortByTime(logs) == SortByTimeFrom(<< >>, logs, 1)

\* dailyStats[date] = { timeOutside: 0 }
EmptyStats(date) == [date |-> date, timeOutside |-> 0, lastNotHomeTime |-> Null]

\* the callback of sortedLogs.forEach, for the entry at index j of stats
RecordLogAt(stats, j, log) ==
  IF log.location = "not_home"
  THEN [stats EXCEPT ![j].lastNotHomeTime = Num(log.created_at)]
  ELSE IF stats[j].lastNotHomeTime # Null
  THEN [stats EXCEPT
          ![j].timeOutside = @ + (log.created_at - Value(stats[j].lastNotHomeTime)),
          ![j].lastNotHomeTime = Null]
  ELSE stats

\* the callback from the creation of dailyStats[date] on
RecordLogOn(dailyStats, date, log) ==
  IF IndexOfDate(dailyStats, date, 1) = 0
  THEN RecordLogAt(Append(dailyStats, EmptyStats(date)), Len(dailyStats) + 1, log)
  ELSE RecordLogAt(dailyStats, IndexOfDate(dailyStats, date, 1), log)

RecordLog(dailyStats, log) ==
  RecordLogOn(dailyStats,
              formatInTimeZone(toZonedTime(log.created_at, TIMEZONE), TIMEZONE),
              log)

RECURSIVE RecordLogs(_, _, _)
RecordLogs(dailyStats, sortedLogs, i) ==
  IF i > Len(sortedLogs) THEN dailyStats
  ELSE RecordLogs(RecordLog(dailyStats, sortedLogs[i]), sortedLogs, i + 1)

\* Number((ticks / 60).toFixed(2)), in hundredths of an hour
ToFixed2(ticks) ==
  ((2 * 100 * ticks * TickMinutes) + MINUTES_PER_HOUR) \div (2 * MINUTES_PER_HOUR)

DailyLocationStats(dailyStats) ==
  [k \in 1..Len(dailyStats) |->
     [date |-> dailyStats[k].date,
      timeOutside |-> ToFixed2(dailyStats[k].timeOutside)]]

processLocationData(locationLogs) ==
  DailyLocationStats(RecordLogs(<< >>, SortByTime(locationLogs), 1))

ProcessLocationData ==
  /\ pc = "input"
  /\ result' = Computed("processLocationData", processLocationData(data))
  /\ pc' = "processed"
  /\ UNCHANGED <<sysTz, events, journals, processed, merged, data>>
  /\ UNCHANGED dashboardVars

InitLocation ==
  /\ sysTz \in SysTimeZones
  /\ events = << >>
  /\ journals = << >>
  /\ processed = << >>
  /\ merged = << >>
  /\ NoDashboard
  /\ data \in SeqUpTo(LocationLog, MaxLocationLogs)
  /\ result = NoResult
  /\ pc = "input"

NextLocation == ProcessLocationData

SpecLocation == InitLocation /\ [][NextLocation]_vars

(***************************************************************************)
(* Properties of the time outside                                          *)
(***************************************************************************)
\* the logs of data in chronological order, when no two share an instant
Chronological ==
  [k \in 1..Len(data) |->
     CHOOSE log \in Range(data) :
       Cardinality({other \in Range(data) : other.created_at < log.created_at})
         = k - 1]

\* no two logs at the same instant and no 'not_home' log directly after
\* another: the away intervals are then the spans from a 'not_home' log to
\* the log after it
PlainLogs ==
  /\ \A i, j \in 1..Len(data) : i # j => data[i].created_at # data[j].created_at
  /\ \A k \in 1..(Len(data) - 1) :
       Chronological[k].location # Chronological[k + 1].location

RECURSIVE AwayTicksFrom(_)
AwayTicksFrom(k) ==
  IF k >= Len(data) THEN 0
  ELSE (IF Chronological[k].location = "not_home"
        THEN Chronological[k + 1].created_at - Chronological[k].created_at
        ELSE 0) + AwayTicksFrom(k + 1)

RECURSIVE HundredthsFrom(_, _)
HundredthsFrom(stats, k) ==
  IF k > Len(stats) THEN 0
  ELSE stats[k].timeOutside + HundredthsFrom(stats, k + 1)

Reordered ==
  {[k \in 1..Len(data) |-> data[p[k]]] :
     p \in {q \in [1..Len(data) -> 1..Len(data)] :
              \A i, j \in 1..Len(data) : i # j => q[i] # q[j]}}

\* C27: for logs in any input order, the timeOutside of all returned days
\* adds up to the total time between each 'not_home' log and the next
\* 'home' log in chronological order (up to the rounding to 2 decimals of
\* each day), each day's timeOutside is non-negative, and the result is the
\* same for every order of the input array.
C27_EveryAwayIntervalCounted ==
  pc = "processed" =>
    /\ PlainLogs =>
         Abs((MINUTES_PER_HOUR * HundredthsFrom(result.value, 1))
               - (100 * TickMinutes * AwayTicksFrom(1)))
           <= (MINUTES_PER_HOUR \div 2) * Len(result.value)
    /\ \A k \in 1..Len(result.value) : result.value[k].timeOutside >= 0
    /\ \A logs \in Reordered : processLocationData(logs) = result.value

(***************************************************************************)
(* Dashboard2: the configurable dashboard.  Its state is config (sections  *)
(* and available metrics) and selectedMetrics.  The configuration is       *)
(* initialConfig of app/dashboard2/page.tsx reduced to two sections and    *)
(* two metrics, one that a line chart takes and one that it does not.      *)
(***************************************************************************)
MaxSections == 3

\* the last value Date.now() takes; it starts at 0 and never goes back
MaxNow == 1

\* y: Infinity of a new section's layout
Infinity == 1000000

availableMetrics ==
  <<[id |-> "mood", type |-> "number"],
    [id |-> "journal_time", type |-> "time"]>>

initialSections ==
  <<[id |-> "timeline", title |-> "Daily Activity", type |-> "line",
     metrics |-> <<"mood">>,
     layout |-> [x |-> 0, y |-> 0, w |-> 12, h |-> 4]],
    [id |-> "activity", title |-> "Daily Activity Stats", type |-> "stat",
     metrics |-> <<"journal_time">>,
     layout |-> [x |-> 0, y |-> 8, w |-> 12, h |-> 2]]>>

\* the type among those DashboardControls offers that the model adds
AddedTypes == {"scatter"}

isMetricCompatibleWithVisualization(metric, visualizationType) ==
  CASE visualizationType \in {"line", "bar"} ->
         metric.type \in {"number", "duration", "percentage"}
    [] visualizationType = "scatter" -> metric.type = "number"
    [] visualizationType = "pie" -> metric.type \in {"percentage", "number"}
    [] visualizationType = "stat" -> TRUE
    [] visualizationType = "table" -> TRUE
    [] OTHER -> FALSE

\* index of the first element of s with the given id, 0 for undefined
RECURSIVE FindById(_, _, _)
FindById(s, id, i) ==
  IF i > Len(s) THEN 0
  ELSE IF s[i].id = id THEN i
  ELSE FindById(s, id, i + 1)

\* the filter callback of handleMetricChange
KeepsMetric(prev, m, type) ==
  /\ FindById(prev.availableMetrics, m, 1) # 0
  /\ isMetricCompatibleWithVisualization(
       prev.availableMetrics[FindById(prev.availableMetrics, m, 1)], type)

\* the updater handleMetricChange hands to setConfig
handleMetricChange(prev, metrics) ==
  [prev EXCEPT !.sections =
     [k \in 1..Len(prev.sections) |->
        [prev.sections[k] EXCEPT !.metrics =
           SelectSeq(metrics, LAMBDA m : KeepsMetric(prev, m, prev.sections[k].type))]]]

\* the argument toggleMetric hands to onChange
toggleMetric(selected, metricId) ==
  IF \E i \in 1..Len(selected) : selected[i] = metricId
  THEN SelectSeq(selected, LAMBDA id : id # metricId)
  ELSE Append(selected, metricId)

\* the updater of handleAddSection, with the value Date.now() returned
handleAddSection(prev, type, dateNow) ==
  [prev EXCEPT !.sections =
     Append(@, [id |-> "section-" \o ToString(dateNow),
                title |-> "New " \o type \o " Section",
                type |-> type,
                metrics |-> << >>,
                layout |-> [x |-> 0, y |-> Infinity, w |-> 6, h |-> 4]])]

handleRemoveSection(prev, sectionId) ==
  [prev EXCEPT !.sections = SelectSeq(@, LAMBDA s : s.id # sectionId)]

\* sections.splice(index, 1), index counted from 0
SpliceOut(sections, index) ==
  SubSeq(sections, 1, index) \o SubSeq(sections, index + 2, Len(sections))

\* sections.splice(index, 0, section)
SpliceIn(sections, index, section) ==
  SubSeq(sections, 1, index) \o <<section>>
    \o SubSeq(sections, index + 1, Len(sections))

\* the updater of handleDragEnd for a drop with a destination
handleDragEnd(prev, source, destination) ==
  [prev EXCEPT !.sections =
     SpliceIn(SpliceOut(@, source), destination, prev.sections[source + 1])]

\* index of the first element of layout with i = id, 0 for undefined
RECURSIVE FindLayout(_, _, _)
FindLayout(layout, id, k) ==
  IF k > Len(layout) THEN 0
  ELSE IF layout[k].i = id THEN k
  ELSE FindLayout(layout, id, k + 1)

handleLayoutChange(prev, layout) ==
  [prev EXCEPT !.sections =
     [k \in 1..Len(prev.sections) |->
        [prev.sections[k] EXCEPT !.layout =
           IF FindLayout(layout, prev.sections[k].id, 1) # 0
           THEN layout[FindLayout(layout, prev.sections[k].id, 1)]
           ELSE @]]]

\* the layout the grid reports: one item per section, stacked in order
GridLayout(sections) ==
  [k \in 1..Len(sections) |->
     [i |-> sections[k].id, x |-> 0, y |-> k - 1, w |-> sections[k].layout.w,
      h |-> sections[k].layout.h]]

ToggleMetric ==
  /\ pc = "dashboard2"
  /\ \E k \in 1..Len(config.availableMetrics) :
       /\ selectedMetrics' =
            toggleMetric(selectedMetrics, config.availableMetrics[k].id)
       /\ config' = handleMetricChange(config,
            toggleMetric(selectedMetrics, config.availableMetrics[k].id))
  /\ UNCHANGED <<sysTz, events, journals, processed, merged, data, result, pc, now>>
  /\ UNCHANGED <<timeRange, loading, error, timelineData, fetches>>

AddSection ==
  /\ pc = "dashboard2"
  /\ Len(config.sections) < MaxSections
  /\ \E type \in AddedTypes :
       /\ config' = handleAddSection(config, type, now)
  /\ UNCHANGED <<sysTz, events, journals, processed, merged, data, result, pc, now>>
  /\ UNCHANGED <<selectedMetrics, timeRange, loading, error, timelineData, fetches>>

\* the remove button of the section at position k
RemoveSection ==
  /\ pc = "dashboard2"
  /\ \E k \in 1..Len(config.sections) :
       /\ config' = handleRemoveSection(config, config.sections[k].id)
  /\ UNCHANGED <<sysTz, events, journals, processed, merged, data, result, pc, now>>
  /\ UNCHANGED <<selectedMetrics, timeRange, loading, error, timelineData, fetches>>

\* a drag of the section at source, dropped at destination or (Null)
\* outside the list
DragEnd ==
  /\ pc = "dashboard2"
  /\ \E source \in 0..(Len(config.sections) - 1) :
       \/ config' = config
       \/ \E destination \in 0..(Len(config.sections) - 1) :
            config' = handleDragEnd(config, source, destination)
  /\ UNCHANGED <<sysTz, events, journals, processed, merged, data, result, pc, now>>
  /\ UNCHANGED <<selectedMetrics, timeRange, loading, error, timelineData, fetches>>

LayoutChange ==
  /\ pc = "dashboard2"
  /\ config' = handleLayoutChange(config, GridLayout(config.sections))
  /\ UNCHANGED <<sysTz, events, journals, processed, merged, data, result, pc, now>>
  /\ UNCHANGED <<selectedMetrics, timeRange, loading, error, timelineData, fetches>>

\* a millisecond passes
Tick ==
  /\ pc = "dashboard2"
  /\ now < MaxNow
  /\ now' = now + 1
  /\ UNCHANGED <<sysTz, events, journals, processed, merged, data, result, pc>>
  /\ UNCHANGED <<config, selectedMetrics, timeRange, loading, error, timelineData, fetches>>

RECURSIVE FlatMetrics(_, _)
FlatMetrics(sections, k) ==
  IF k > Len(sections) THEN << >>
  ELSE sections[k].metrics \o FlatMetrics(sections, k + 1)

InitDashboard2 ==
  /\ sysTz = TIMEZONE
  /\ events = << >>
  /\ journals = << >>
  /\ processed = << >>
  /\ merged = << >>
  /\ data = << >>
  /\ result = NoResult
  /\ pc = "dashboard2"
  /\ config = [sections |-> initialSections, availableMetrics |-> availableMetrics]
  /\ selectedMetrics = FlatMetrics(initialSections, 1)
  /\ now = 0
  /\ timeRange = ""
  /\ loading = FALSE
  /\ error = << >>
  /\ timelineData = << >>
  /\ fetches = << >>

NextDashboard2 ==
  \/ ToggleMetric
  \/ AddSection
  \/ RemoveSection
  \/ DragEnd
  \/ LayoutChange
  \/ Tick

SpecDashboard2 == InitDashboard2 /\ [][NextDashboard2]_vars

(***************************************************************************)
(* Properties of Dashboard2                                                *)
(***************************************************************************)
MetricIds == {"mood", "journal_time"}

HasMetric(section, id) == \E i \in 1..Len(section.metrics) : section.metrics[i] = id

\* whether a visualization of the given type takes metric id, as specified
SpecCompatible(id, visualizationType) ==
  LET type == IF id = "mood" THEN "number" ELSE "time"
  IN \/ visualizationType \in {"stat", "table"}
     \/ visualizationType \in {"line", "bar"}
          /\ type \in {"number", "duration", "percentage"}
     \/ visualizationType = "scatter" /\ type = "number"
     \/ visualizationType = "pie" /\ type \in {"percentage", "number"}

\* C28: toggling one metric id m in the metric selector changes only m's
\* membership: in every section every other metric id belongs to
\* section.metrics after handleMetricChange exactly if it did before, and m
\* is added only to sections whose visualization type is compatible with it.
C28_ToggleChangesOneMetric ==
  [][ToggleMetric =>
       \E m \in MetricIds :
         /\ (m \in Range(selectedMetrics)) # (m \in Range(selectedMetrics'))
         /\ \A k \in 1..Len(config.sections) :
              /\ \A other \in MetricIds \ {m} :
                   HasMetric(config.sections[k], other)
                     <=> HasMetric(config'.sections[k], other)
              /\ HasMetric(config'.sections[k], m) /\ ~HasMetric(config.sections[k], m)
                   => SpecCompatible(m, config.sections[k].type)]_vars

DistinctIds(sections) ==
  \A i, j \in 1..Len(sections) : i # j => sections[i].id # sections[j].id

Occurrences(sections, section) ==
  Cardinality({i \in 1..Len(sections) : sections[i] = section})

\* C29: after any sequence of add-section, remove-section, drag-reorder and
\* layout-change operations the section ids are pairwise distinct;
\* handleRemoveSection removes exactly the section whose remove button was
\* clicked and leaves the others in their order; a drag only permutes the
\* sections, and one without a destination changes nothing.
C29_SectionsKeepDistinctIds ==
  [][/\ DistinctIds(config'.sections)
     /\ RemoveSection =>
          \E k \in 1..Len(config.sections) :
            config'.sections =
              SubSeq(config.sections, 1, k - 1)
                \o SubSeq(config.sections, k + 1, Len(config.sections))
     /\ DragEnd =>
          /\ Len(config'.sections) = Len(config.sections)
          /\ \A i \in 1..Len(config.sections) :
               Occurrences(config'.sections, config.sections[i])
                 = Occurrences(config.sections, config.sections[i])]_vars

\* ---------------------------------------------------------------------
\* The Dashboard component: the fetchData effect and the time range selector
\* ---------------------------------------------------------------------

\* Bound on the fetchData runs in flight together (the guard of the time
\* range selector keeps them at one; the bound caps the model when that
\* guard is weakened).
MaxFetches == 2

\* The items of the time range selector.
TimeRanges == {"7", "14", "30", "60", "90"}

\* The awaits of one fetchData run, in order: sleep_export, workouts,
\* daily_log, journals, location_log.
Awaits == <<"sleep_export", "workouts", "daily_log", "journals", "location_log">>

FetchFailed == <<"Failed to fetch data. Please try again later.">>

\* fetchData up to its first await: setLoading(true), setError(null), the
\* start date is computed from the time range of this render, and the
\* request for sleep_export is sent.
StartedFetch(range) == [timeRange |-> range, awaiting |-> 1]

\* The header stays in place while a run is in flight.
SelectorRenderedWhileLoading == error = << >>

\* The component returns the loader while loading and the error view while
\* error is set; the header with the range selector is rendered otherwise.
SelectorRendered == ~loading /\ error = << >>

RemoveAt(s, i) == SubSeq(s, 1, i - 1) \o SubSeq(s, i + 1, Len(s))

\* The effect of the first render: useEffect(..., [timeRange]) runs
\* fetchData once after the component is mounted.
Mount ==
  /\ pc = "dashboard"
  /\ pc' = "mounted"
  /\ loading' = TRUE
  /\ error' = << >>
  /\ fetches' = Append(fetches, StartedFetch(timeRange))
  /\ UNCHANGED <<timeRange, timelineData>>
  /\ UNCHANGED <<sysTz, events, journals, processed, merged, data, result>>
  /\ UNCHANGED <<config, selectedMetrics, now>>

\* onValueChange={setTimeRange}: the selector is usable only when it is
\* rendered; a changed timeRange re-renders the component and the effect
\* runs fetchData for the new range.  React commits the update of a
\* discrete event, flushes its effects and renders the loader before the
\* next selection can be made (the list of the selector closes with the
\* selection), so the selection and the start of the run are one step.
SelectTimeRange ==
  /\ pc = "mounted"
  /\ SelectorRendered
  /\ Len(fetches) < MaxFetches
  /\ \E range \in TimeRanges \ {timeRange} :
       /\ timeRange' = range
       /\ fetches' = Append(fetches, StartedFetch(range))
  /\ loading' = TRUE
  /\ error' = << >>
  /\ UNCHANGED <<pc, timelineData>>
  /\ UNCHANGED <<sysTz, events, journals, processed, merged, data, result>>
  /\ UNCHANGED <<config, selectedMetrics, now>>

\* An await of a run resolves.  The run goes on to its next await; past
\* the journals it calls setTimelineData(mergedData) with the rows since
\* its own start date; past the location logs it leaves the try block and
\* the finally block calls setLoading(false).
ResolveFetch ==
  /\ pc = "mounted"
  /\ \E i \in 1..Len(fetches) :
       /\ timelineData' = IF Awaits[fetches[i].awaiting] = "journals"
                          THEN <<fetches[i].timeRange>>
                          ELSE timelineData
       /\ IF fetches[i].awaiting < Len(Awaits)
          THEN /\ fetches' = [fetches EXCEPT ![i].awaiting = @ + 1]
               /\ UNCHANGED loading
          ELSE /\ fetches' = RemoveAt(fetches, i)
               /\ loading' = FALSE
  /\ UNCHANGED <<pc, timeRange, error>>
  /\ UNCHANGED <<sysTz, events, journals, processed, merged, data, result>>
  /\ UNCHANGED <<config, selectedMetrics, now>>

\* An await of a run rejects (fetchSupabase throws): the catch block calls
\* setError and the finally block setLoading(false).
RejectFetch ==
  /\ pc = "mounted"
  /\ \E i \in 1..Len(fetches) :
       fetches' = RemoveAt(fetches, i)
  /\ error' = FetchFailed
  /\ loading' = FALSE
  /\ UNCHANGED <<pc, timeRange, timelineData>>
  /\ UNCHANGED <<sysTz, events, journals, processed, merged, data, result>>
  /\ UNCHANGED <<config, selectedMetrics, now>>

\* The first render: the useState initial values, no effect has run yet.
InitDashboard ==
  /\ sysTz = TIMEZONE
  /\ events = << >>
  /\ journals = << >>
  /\ processed = << >>
  /\ merged = << >>
  /\ data = << >>
  /\ result = NoResult
  /\ pc = "dashboard"
  /\ config = << >>
  /\ selectedMetrics = << >>
  /\ now = 0
  /\ timeRange = "14"
  /\ loading = TRUE
  /\ error = << >>
  /\ timelineData = << >>
  /\ fetches = << >>

NextDashboard ==
  \/ Mount
  \/ SelectTimeRange
  \/ ResolveFetch
  \/ RejectFetch

SpecDashboard == InitDashboard /\ [][NextDashboard]_vars

\* ---------------------------------------------------------------------
\* Properties of the Dashboard component
\* ---------------------------------------------------------------------

\* What the page shows for the timeline: nothing while the loader or the
\* error view is returned, the timeline data otherwise.
DisplayedTimeline == IF loading \/ error # << >> THEN << >> ELSE <<timelineData>>

\* The state between two steps of the mounted component, as the claim
\* describes it.
OneFetchAtATime ==
  /\ Len(fetches) <= 1
  /\ loading <=> fetches # << >>
  /\ \A i \in 1..Len(fetches) : fetches[i].timeRange = timeRange
  /\ DisplayedTimeline \in {<< >>, <<(<<timeRange>>)>>}

\* C30: in the Dashboard component at most one fetchData run is in flight
\* at any time; the time range changes only in a step taken while loading
\* is false and error is null; a run that ends leaves loading = false, so
\* loading is true exactly while a run is in flight; and the timeline data
\* on display after a successful run was fetched for the selected range.
C30_OneFetchInFlight ==
  [][/\ timeRange' # timeRange => ~loading /\ error = << >>
     /\ Len(fetches') < Len(fetches) => ~loading'
     /\ pc' = "mounted" => OneFetchAtATime']_vars

\* A second range has been selected and its run has ended successfully:
\* the page shows the timeline of that range.
C30_Witness ==
  /\ pc = "mounted"
  /\ timeRange = "30"
  /\ fetches = << >>
  /\ DisplayedTimeline = <<(<<"30">>)>>

====
